---- MODULE Spec2Model ----
(***************************************************************************)
(* The Groth16 verification precompile of privacy-precompiles: the curve   *)
(* parameter registry, the Solidity byte codec for BN254, the gas model    *)
(* and the orchestrator Groth16Verify.Run, as a state machine over the     *)
(* calls a host makes on one constructed verifier.                         *)
(***************************************************************************)
EXTENDS Integers, Sequences, FiniteSets, TLC

(***************************************************************************)
(* Bounds of the model.                                                    *)
(***************************************************************************)
\* Longest calldata the host hands over; 7008 bytes is the first length
\* whose inferred public-input count is 65.
MaxInputLen == 7104

\* Most public inputs of a verifying key taken through the codec.
MaxKeyInputs == 3

\* Longest byte slice handed to a codec function called directly.
MaxCodecLen == 770
MaxSliceLen == 4

\* Most whole words of the calldata of the Poseidon precompile (a uint8
\* word count).
MaxPoseidonWords == 255

(***************************************************************************)
(* Program constants.                                                      *)
(***************************************************************************)
Groth16MaxPublicInputs == 64
BN254Groth16VerifyBaseGas == 220000
BN254Groth16ProofSize == 256
BN254Groth16VerifyVerifyingKeySize == 448
BN254Groth16G1Size == 64
BN254Groth16G2Size == 128
BN254Groth16SinglePublicInputSize == 32
BN254Groth16FieldSize == 32
BabyJubJubCurveAddGas == 12300
BabyJubJubCurveMulGas == 14400
\* The tests corrupt a serialization with `bytes[i] ^= 1`.
FlipValue == 1

\* error values (the Go error messages); NoError is Go's nil error
NoError == "nil"
ErrorGroth16VerifyUnsupportedCurve == "unsupported curve"
ErrorPanicGroth16Verify == "panic during Groth16 verification"
ErrorGroth16VerifyInvalidInputLength == "invalid input length"
ErrorGroth16VerifyInvalidProof == "invalid proof"
ErrorGroth16VerifyInvalidVerifyingKey == "invalid verifying key"
ErrorGroth16VerifyInvalidPublicWitness == "invalid public witness"
ErrorInvalidG1 == "invalid G1 point"
ErrorInvalidG2 == "invalid G2 point"
ErrorInvalidSlice == "invalid slice"

\* a nil []byte
NilBytes == <<>>

(***************************************************************************)
(* Go arithmetic.                                                          *)
(***************************************************************************)
\* Go's integer division truncates toward zero; b > 0 here.
GoDiv(a, b) == IF a >= 0 THEN a \div b ELSE -((-a) \div b)

\* A uint64 is eight base-256 digits, least significant first.
Pow256(k) == CASE k = 0 -> 1 [] k = 1 -> 256 [] k = 2 -> 65536 [] k = 3 -> 16777216

Digit(m, k) == IF k < 4 THEN (m \div Pow256(k)) % 256 ELSE 0

\* A conversion that takes a negative int to 0 instead of wrapping it.
Uint64Clamped(i) ==
    [k \in 0..7 |-> IF i >= 0 THEN Digit(i, k) ELSE 0]

\* uint64(i) for a Go int i: two's complement for a negative i.
Uint64(i) ==
    IF i >= 0
        THEN [k \in 0..7 |-> Digit(i, k)]
        ELSE [k \in 0..7 |-> 255 - Digit(-i - 1, k)]

\* a + b modulo 2^64: the digit sums with their carries
U64Add(a, b) ==
    LET x == a
        y == b
        s0 == x[0] + y[0]
        s1 == x[1] + y[1] + s0 \div 256
        s2 == x[2] + y[2] + s1 \div 256
        s3 == x[3] + y[3] + s2 \div 256
        s4 == x[4] + y[4] + s3 \div 256
        s5 == x[5] + y[5] + s4 \div 256
        s6 == x[6] + y[6] + s5 \div 256
        s7 == x[7] + y[7] + s6 \div 256
    IN  [k \in 0..7 |->
            CASE k = 0 -> s0 % 256 [] k = 1 -> s1 % 256 [] k = 2 -> s2 % 256
              [] k = 3 -> s3 % 256 [] k = 4 -> s4 % 256 [] k = 5 -> s5 % 256
              [] k = 6 -> s6 % 256 [] k = 7 -> s7 % 256]

\* a * b modulo 2^64: the column sums of the digit products with their carries
U64Mul(a, b) ==
    LET x == a
        y == b
        s0 == x[0] * y[0]
        s1 == x[0] * y[1] + x[1] * y[0] + s0 \div 256
        s2 == x[0] * y[2] + x[1] * y[1] + x[2] * y[0] + s1 \div 256
        s3 == x[0] * y[3] + x[1] * y[2] + x[2] * y[1] + x[3] * y[0]
              + s2 \div 256
        s4 == x[0] * y[4] + x[1] * y[3] + x[2] * y[2] + x[3] * y[1]
              + x[4] * y[0] + s3 \div 256
        s5 == x[0] * y[5] + x[1] * y[4] + x[2] * y[3] + x[3] * y[2]
              + x[4] * y[1] + x[5] * y[0] + s4 \div 256
        s6 == x[0] * y[6] + x[1] * y[5] + x[2] * y[4] + x[3] * y[3]
              + x[4] * y[2] + x[5] * y[1] + x[6] * y[0] + s5 \div 256
        s7 == x[0] * y[7] + x[1] * y[6] + x[2] * y[5] + x[3] * y[4]
              + x[4] * y[3] + x[5] * y[2] + x[6] * y[1] + x[7] * y[0]
              + s6 \div 256
    IN  [k \in 0..7 |->
            CASE k = 0 -> s0 % 256 [] k = 1 -> s1 % 256 [] k = 2 -> s2 % 256
              [] k = 3 -> s3 % 256 [] k = 4 -> s4 % 256 [] k = 5 -> s5 % 256
              [] k = 6 -> s6 % 256 [] k = 7 -> s7 % 256]

(***************************************************************************)
(* Byte slices.  A slice is make([]byte, len) with at most one byte set:   *)
(* byte pos holds val (pos = -1: every byte is zero).                      *)
(***************************************************************************)
Zeroes(n) == [len |-> n, pos |-> -1, val |-> 0]

Flip(data, p) ==
    IF p >= 0 /\ p < data.len /\ data.pos = -1
        THEN [len |-> data.len, pos |-> p, val |-> FlipValue]
        ELSE data

ByteAt(data, i) == IF i = data.pos THEN data.val ELSE 0

\* data[start:end] for 0 <= start <= end <= len(data)
SubSlice(data, start, end) ==
    IF data.pos >= start /\ data.pos < end
        THEN [len |-> end - start, pos |-> data.pos - start, val |-> data.val]
        ELSE Zeroes(end - start)

\* Mutant: the slice is cut from the start of the data.
SafeSliceFromZero(data, start, end) ==
    IF start < 0 \/ end < 0 \/ start > end \/ end > data.len
        THEN [slice |-> Zeroes(0), ok |-> FALSE]
        ELSE [slice |-> SubSlice(data, 0, end), ok |-> TRUE]

\* Mutant: an end one beyond the data is let through.
SafeSliceBeyondEnd(data, start, end) ==
    IF start < 0 \/ end < 0 \/ start > end \/ end > data.len + 1
        THEN [slice |-> Zeroes(0), ok |-> FALSE]
        ELSE [slice |-> SubSlice(data, start, end), ok |-> TRUE]

\* Mutant: the slice runs to the end of the data, data[start:].
SafeSliceToEnd(data, start, end) ==
    IF start < 0 \/ end < 0 \/ start > end \/ end > data.len
        THEN [slice |-> Zeroes(0), ok |-> FALSE]
        ELSE [slice |-> SubSlice(data, start, data.len), ok |-> TRUE]

SafeSlice(data, start, end) ==
    IF start < 0 \/ end < 0 \/ start > end \/ end > data.len
        THEN [slice |-> Zeroes(0), ok |-> FALSE]
        ELSE [slice |-> SubSlice(data, start, end), ok |-> TRUE]

\* SetBytes: the big-endian unsigned integer of a slice, m * 2^e.  With
\* FlipValue = 1 and 32-byte slices the value is below 2^249, so below the
\* BN254 moduli, and the reduction SetBytes applies leaves it unchanged.
ZeroElement == [m |-> 0, e |-> 0]

SetBytes(slice) ==
    IF slice.pos = -1 \/ slice.val = 0
        THEN ZeroElement
        ELSE [m |-> slice.val, e |-> 8 * (slice.len - 1 - slice.pos)]

(***************************************************************************)
(* The BN254 byte codec (SolidityBN254Parser).  A parser method returns    *)
(* [kind, value, err]: kind "ok" (value, nil), "err" (nil, err) or         *)
(* "panic" (a runtime fault).                                              *)
(***************************************************************************)
NilValue == [nil |-> TRUE]

ParseOk(v) == [kind |-> "ok", value |-> v, err |-> NoError]

ParseErr(e) == [kind |-> "err", value |-> NilValue, err |-> e]

ParsePanic == [kind |-> "panic", value |-> NilValue, err |-> NoError]

ZeroG1 == [X |-> ZeroElement, Y |-> ZeroElement]

ZeroE2 == [A0 |-> ZeroElement, A1 |-> ZeroElement]

ZeroG2 == [X |-> ZeroE2, Y |-> ZeroE2]

\* Mutant: a point with Y = 0 and X # 0, which is not on the curve, is
\* refused.
ParseG1OnCurve(data, offset) ==
    LET x == SafeSlice(data, offset, offset + BN254Groth16FieldSize)
        y == SafeSlice(data, offset + BN254Groth16FieldSize,
                       offset + 2 * BN254Groth16FieldSize)
    IN  IF ~x.ok
            THEN [offset |-> offset, err |-> ErrorInvalidG1, point |-> ZeroG1]
        ELSE IF ~y.ok
            THEN [offset |-> offset, err |-> ErrorInvalidG1,
                  point |-> [X |-> SetBytes(x.slice), Y |-> ZeroElement]]
        ELSE IF SetBytes(y.slice) = ZeroElement /\ SetBytes(x.slice) # ZeroElement
            THEN [offset |-> offset, err |-> ErrorInvalidG1,
                  point |-> [X |-> SetBytes(x.slice), Y |-> SetBytes(y.slice)]]
        ELSE [offset |-> offset + BN254Groth16G1Size, err |-> NoError,
              point |-> [X |-> SetBytes(x.slice), Y |-> SetBytes(y.slice)]]

\* ParseG1 returns (new offset, error) and writes destination; a failed
\* second read leaves X written.
ParseG1(data, offset) ==
    LET x == SafeSlice(data, offset, offset + BN254Groth16FieldSize)
        y == SafeSlice(data, offset + BN254Groth16FieldSize,
                       offset + 2 * BN254Groth16FieldSize)
    IN  IF ~x.ok
            THEN [offset |-> offset, err |-> ErrorInvalidG1, point |-> ZeroG1]
        ELSE IF ~y.ok
            THEN [offset |-> offset, err |-> ErrorInvalidG1,
                  point |-> [X |-> SetBytes(x.slice), Y |-> ZeroElement]]
        ELSE [offset |-> offset + BN254Groth16G1Size, err |-> NoError,
              point |-> [X |-> SetBytes(x.slice), Y |-> SetBytes(y.slice)]]

\* Mutant: the third element is read into Y.A0 and the fourth into Y.A1.
ParseG2LowFirst(data, offset) ==
    LET f == BN254Groth16FieldSize
        xa1 == SafeSlice(data, offset, offset + f)
        xa0 == SafeSlice(data, offset + f, offset + 2 * f)
        ya0 == SafeSlice(data, offset + 2 * f, offset + 3 * f)
        ya1 == SafeSlice(data, offset + 3 * f, offset + BN254Groth16G2Size)
        E(s) == IF s.ok THEN SetBytes(s.slice) ELSE ZeroElement
    IN  IF ~xa1.ok \/ ~xa0.ok \/ ~ya0.ok \/ ~ya1.ok
            THEN [offset |-> offset, err |-> ErrorInvalidG2, point |-> ZeroG2]
        ELSE [offset |-> offset + BN254Groth16G2Size, err |-> NoError,
              point |-> [X |-> [A0 |-> E(xa0), A1 |-> E(xa1)],
                         Y |-> [A0 |-> E(ya0), A1 |-> E(ya1)]]]

\* ParseG2 reads X.A1, X.A0, Y.A1, Y.A0 in this order.
ParseG2(data, offset) ==
    LET f == BN254Groth16FieldSize
        xa1 == SafeSlice(data, offset, offset + f)
        xa0 == SafeSlice(data, offset + f, offset + 2 * f)
        ya1 == SafeSlice(data, offset + 2 * f, offset + 3 * f)
        ya0 == SafeSlice(data, offset + 3 * f, offset + BN254Groth16G2Size)
        E(s) == IF s.ok THEN SetBytes(s.slice) ELSE ZeroElement
    IN  IF ~xa1.ok
            THEN [offset |-> offset, err |-> ErrorInvalidG2, point |-> ZeroG2]
        ELSE IF ~xa0.ok
            THEN [offset |-> offset, err |-> ErrorInvalidG2,
                  point |-> [X |-> [A0 |-> ZeroElement, A1 |-> E(xa1)], Y |-> ZeroE2]]
        ELSE IF ~ya1.ok
            THEN [offset |-> offset, err |-> ErrorInvalidG2,
                  point |-> [X |-> [A0 |-> E(xa0), A1 |-> E(xa1)], Y |-> ZeroE2]]
        ELSE IF ~ya0.ok
            THEN [offset |-> offset, err |-> ErrorInvalidG2,
                  point |-> [X |-> [A0 |-> E(xa0), A1 |-> E(xa1)],
                             Y |-> [A0 |-> ZeroElement, A1 |-> E(ya1)]]]
        ELSE [offset |-> offset + BN254Groth16G2Size, err |-> NoError,
              point |-> [X |-> [A0 |-> E(xa0), A1 |-> E(xa1)],
                         Y |-> [A0 |-> E(ya0), A1 |-> E(ya1)]]]

\* Mutant: the error of the last ParseG1 is not looked at.
ParseProofWithoutKrsCheck(data) ==
    LET ar == ParseG1(data, 0)
        bs == ParseG2(data, ar.offset)
        krs == ParseG1(data, bs.offset)
    IN  IF ar.err # NoError THEN ParseErr(ar.err)
        ELSE IF bs.err # NoError THEN ParseErr(bs.err)
        ELSE ParseOk([Ar |-> ar.point, Bs |-> bs.point, Krs |-> krs.point])

ParseProof(data) ==
    LET ar == ParseG1(data, 0)
        bs == ParseG2(data, ar.offset)
        krs == ParseG1(data, bs.offset)
    IN  IF ar.err # NoError THEN ParseErr(ar.err)
        ELSE IF bs.err # NoError THEN ParseErr(bs.err)
        ELSE IF krs.err # NoError THEN ParseErr(krs.err)
        ELSE ParseOk([Ar |-> ar.point, Bs |-> bs.point, Krs |-> krs.point])

\* The loop `for index := range vk.G1.K`: iteration `index` parses at
\* start + index * BN254Groth16G1Size, the offset the ParseG1 before it
\* returned, and the first failed ParseG1 ends the loop.
ParseIC(data, start, length) ==
    LET parsed == [index \in 0..(length - 1) |->
                      ParseG1(data, start + index * BN254Groth16G1Size)]
        failed == {index \in 0..(length - 1) : parsed[index].err # NoError}
        first == CHOOSE index \in failed : \A other \in failed : index <= other
    IN  IF failed = {}
            THEN [err |-> NoError, K |-> [i \in 1..length |-> parsed[i - 1].point]]
            ELSE [err |-> parsed[first].err, K |-> <<>>]

\* make([]bn254.G1Affine, numberOfPublicInputs+1) faults on a negative
\* length; vk.Precompute() cannot fail after Alpha and Beta were read.
ParseVerifyingKey(data, numberOfPublicInputs) ==
    LET alpha == ParseG1(data, 0)
        beta == ParseG2(data, alpha.offset)
        gamma == ParseG2(data, beta.offset)
        delta == ParseG2(data, gamma.offset)
        ic == ParseIC(data, delta.offset, numberOfPublicInputs + 1)
    IN  IF alpha.err # NoError THEN ParseErr(alpha.err)
        ELSE IF beta.err # NoError THEN ParseErr(beta.err)
        ELSE IF gamma.err # NoError THEN ParseErr(gamma.err)
        ELSE IF delta.err # NoError THEN ParseErr(delta.err)
        ELSE IF numberOfPublicInputs + 1 < 0 THEN ParsePanic
        ELSE IF ic.err # NoError THEN ParseErr(ic.err)
        ELSE ParseOk([Alpha |-> alpha.point, Beta |-> beta.point,
                      Gamma |-> gamma.point, Delta |-> delta.point, K |-> ic.K])

\* How many times the modulus r of ecc.BN254.ScalarField() fits into the
\* integer m * 2^e of 32 bytes: r = 0x30644e72..., so r / 2^232 lies between
\* 3171406 and 3171407, and below 2^248 the integer is below r.
ScalarFieldWraps(v) ==
    IF v.e = 8 * (BN254Groth16FieldSize - 1) THEN (v.m * 65536) \div 3171406 ELSE 0

\* publicWitness.Fill stores each value with fr.Element.SetBigInt, which
\* reduces it modulo r: the element is m * 2^e - wraps * r.
SetBigInt(v) ==
    CHOOSE element \in {[m |-> w.m, e |-> w.e, wraps |-> ScalarFieldWraps(w)] :
                            w \in {v}} : TRUE

\* ParsePublicWitness without `offset += BN254Groth16FieldSize`: every
\* element is read at offset 0.
ParsePublicWitnessFromStart(data, numberOfPublicInputs) ==
    LET read == SafeSlice(data, 0, BN254Groth16FieldSize)
    IN  IF numberOfPublicInputs < 0 THEN ParsePanic
        ELSE IF numberOfPublicInputs > 0 /\ ~read.ok
            THEN ParseErr(ErrorInvalidSlice)
        ELSE ParseOk([i \in 1..numberOfPublicInputs |->
                        SetBigInt(SetBytes(read.slice))])

\* make(chan any, numberOfPublicInputs) faults on a negative capacity.  The
\* loop `for range numberOfPublicInputs` reads at offset, offset + 32, ...
\* and returns at the first failed SafeSlice; Fill cannot fail on a closed
\* channel of numberOfPublicInputs *big.Int.
ParsePublicWitness(data, numberOfPublicInputs) ==
    LET read == [index \in 0..(numberOfPublicInputs - 1) |->
                    SafeSlice(data, index * BN254Groth16FieldSize,
                              index * BN254Groth16FieldSize + BN254Groth16FieldSize)]
    IN  IF numberOfPublicInputs < 0 THEN ParsePanic
        ELSE IF \E index \in 0..(numberOfPublicInputs - 1) : ~read[index].ok
            THEN ParseErr(ErrorInvalidSlice)
        ELSE ParseOk([i \in 1..numberOfPublicInputs |->
                        SetBigInt(SetBytes(read[i - 1].slice))])

(***************************************************************************)
(* The serializer of the codec's tests (SerializeVerifyingKey).            *)
(***************************************************************************)
\* fp.Element.Bytes(): the BN254Groth16FieldSize big-endian bytes of m * 2^e
Bytes(element) ==
    IF element.m = 0 THEN Zeroes(BN254Groth16FieldSize)
    ELSE [len |-> BN254Groth16FieldSize,
          pos |-> BN254Groth16FieldSize - 1 - (element.e \div 8),
          val |-> element.m]

\* append(out, bytes...)
append(out, bytes) ==
    IF out.pos # -1 THEN [len |-> out.len + bytes.len, pos |-> out.pos, val |-> out.val]
    ELSE IF bytes.pos # -1
        THEN [len |-> out.len + bytes.len, pos |-> out.len + bytes.pos, val |-> bytes.val]
    ELSE Zeroes(out.len + bytes.len)

\* the closure serializeG1: X, Y
serializeG1(out, p) == append(append(out, Bytes(p.X)), Bytes(p.Y))

\* the closure serializeG2: it appends x1, x0, y0, y1
serializeG2(out, p) ==
    append(append(append(append(out, Bytes(p.X.A1)), Bytes(p.X.A0)),
                    Bytes(p.Y.A0)), Bytes(p.Y.A1))

\* `for _, k := range value.G1.K { serializeG1(k) }`, from index i on
RECURSIVE SerializeK(_, _, _)
SerializeK(out, K, i) ==
    IF i > Len(K) THEN out ELSE SerializeK(serializeG1(out, K[i]), K, i + 1)

SerializeVerifyingKey(value) ==
    SerializeK(
        serializeG2(serializeG2(serializeG2(serializeG1(Zeroes(0), value.Alpha),
                                            value.Beta), value.Gamma), value.Delta),
        value.K, 1)

(***************************************************************************)
(* The registries and the parsers a verifier can be bound to.              *)
(***************************************************************************)
\* ecc.ID values: BN254 is registered, BLS12_377 is the id the tests use
\* for an unsupported curve.
CurveIDs == {"BN254", "BLS12_377"}

Groth16Params ==
    [c \in {"BN254"} |->
        [proofSize |-> BN254Groth16ProofSize,
         vkSize |-> BN254Groth16VerifyVerifyingKeySize,
         g1Size |-> BN254Groth16G1Size,
         singlePublicInputSize |-> BN254Groth16SinglePublicInputSize,
         baseGas |-> BN254Groth16VerifyBaseGas]]

\* The registered parser, SolidityProofParsers[ecc.BN254].
SolidityBN254Parser ==
    [kind |-> "bn254", ParseProof |-> "codec", ParseVerifyingKey |-> "codec",
     ParsePublicWitness |-> "codec"]

\* Any other implementation of SolidityGroth16ByteParser: each method
\* returns a value ("ok"), faults ("panic") or returns the given error.
StubParser(proof, vk, witness) ==
    [kind |-> "stub", ParseProof |-> proof, ParseVerifyingKey |-> vk,
     ParsePublicWitness |-> witness]

StubFailures ==
    {"panic", ErrorInvalidG1, ErrorInvalidG2, ErrorInvalidSlice}

\* The stubs up to what Run can observe: Run calls nothing after the first
\* failing method.  The tests' invalidProofParser, invalidVerifyingKeyParser,
\* invalidPublicWitnessParser and panicParser are of these shapes.
StubParsers ==
    {StubParser(f, "ok", "ok") : f \in StubFailures}
        \cup {StubParser("ok", f, "ok") : f \in StubFailures}
        \cup {StubParser("ok", "ok", f) : f \in StubFailures}
        \cup {StubParser("ok", "ok", "ok")}

Parsers == {SolidityBN254Parser} \cup StubParsers

StubResult(behaviour) ==
    CASE behaviour = "ok" -> ParseOk(NilValue)
      [] behaviour = "panic" -> ParsePanic
      [] OTHER -> ParseErr(behaviour)

ParserParseProof(parser, data) ==
    IF parser.kind = "bn254" THEN ParseProof(data)
    ELSE StubResult(parser.ParseProof)

ParserParseVerifyingKey(parser, data, numberOfPublicInputs) ==
    IF parser.kind = "bn254" THEN ParseVerifyingKey(data, numberOfPublicInputs)
    ELSE StubResult(parser.ParseVerifyingKey)

ParserParsePublicWitness(parser, data, numberOfPublicInputs) ==
    IF parser.kind = "bn254" THEN ParsePublicWitness(data, numberOfPublicInputs)
    ELSE StubResult(parser.ParsePublicWitness)

\* The pairing engine, groth16.Verify, is external: `outcome` is what it
\* does on these arguments.  On a proof, key and witness of the BN254 types
\* it returns nil ("valid") or an error ("invalid"); on anything else it
\* may also fault.
EngineOutcomes(parser) ==
    IF parser.kind = "bn254" THEN {"valid", "invalid"}
    ELSE {"valid", "invalid", "panic"}

(***************************************************************************)
(* Groth16Verify: the gas model and the orchestrator.                      *)
(***************************************************************************)
\* `params, ok := Groth16Params[c.curveID]`: ok
Supported(curveID) == curveID \in DOMAIN Groth16Params

\* Mutant: the operands of the subtraction are exchanged.
calculateNumberOfPublicInputsReversed(input, params) ==
    GoDiv(params.proofSize + params.vkSize + params.g1Size - input.len,
          params.g1Size + params.singlePublicInputSize)

calculateNumberOfPublicInputs(input, params) ==
    GoDiv(input.len - params.proofSize - params.vkSize - params.g1Size,
          params.g1Size + params.singlePublicInputSize)

\* Mutant: the count is taken without the mandatory extra IC point.
RequiredGasCountsEveryG1(curveID, input) ==
    IF ~Supported(curveID) THEN Uint64(0)
    ELSE LET params == Groth16Params[curveID]
             numberOfPublicInputs ==
                 GoDiv(input.len - params.proofSize - params.vkSize,
                       params.g1Size + params.singlePublicInputSize)
             operationsCost == U64Add(Uint64(BabyJubJubCurveAddGas),
                                      Uint64(BabyJubJubCurveMulGas))
         IN  U64Add(Uint64(params.baseGas),
                    U64Mul(operationsCost, Uint64(numberOfPublicInputs)))

RequiredGas(curveID, input) ==
    IF ~Supported(curveID) THEN Uint64(0)
    ELSE LET params == Groth16Params[curveID]
             numberOfPublicInputs == calculateNumberOfPublicInputs(input, params)
             operationsCost == U64Add(Uint64(BabyJubJubCurveAddGas),
                                      Uint64(BabyJubJubCurveMulGas))
         IN  U64Add(Uint64(params.baseGas),
                    U64Mul(operationsCost, Uint64(numberOfPublicInputs)))

Call(op, data, n) == [op |-> op, data |-> data, n |-> n]

\* How the body of Run ends: a return, or a fault with the named results
\* ret and err as they stand at the fault.
Return(ret, err, calls, count, engine) ==
    [panicked |-> FALSE, ret |-> ret, err |-> err, calls |-> calls,
     count |-> count, engine |-> engine, arguments |-> <<>>,
     recovered |-> FALSE]

Fault(err, calls, count, engine) ==
    [panicked |-> TRUE, ret |-> NilBytes, err |-> err, calls |-> calls,
     count |-> count, engine |-> engine, arguments |-> <<>>,
     recovered |-> FALSE]

\* Mutant: no return on !ok; Run goes on with zero-valued params and
\* faults on the division by zero.
UnsupportedCurveFallsThrough == Fault(NoError, <<>>, 0, "none")

\* The return of Run on !ok.
UnsupportedCurve ==
    Return(NilBytes, ErrorGroth16VerifyUnsupportedCurve, <<>>, 0, "none")

\* The length checks of Run: TRUE when the input is rejected.
RejectsLength(length, minInputSize) == length < minInputSize

\* Mutant: the upper limit on the count is not checked.
RejectsCountWithoutMaximum(numberOfPublicInputs) == numberOfPublicInputs <= 0

RejectsCount(numberOfPublicInputs) ==
    numberOfPublicInputs <= 0 \/ numberOfPublicInputs > Groth16MaxPublicInputs

\* What Run returns for a failed parser method.
ProofError(parserError) == ErrorGroth16VerifyInvalidProof

\* Mutant: the parser's own error is returned.
VerifyingKeyErrorPassedOn(parserError) == parserError

VerifyingKeyError(parserError) == ErrorGroth16VerifyInvalidVerifyingKey

PublicWitnessError(parserError) == ErrorGroth16VerifyInvalidPublicWitness

\* Mutant: the two result bytes are exchanged.
VerifyResultInverted(outcome) == IF outcome = "valid" THEN <<0>> ELSE <<1>>

\* The result of groth16.Verify as Run returns it.
VerifyResult(outcome) == IF outcome = "valid" THEN <<1>> ELSE <<0>>

\* Run up to the call of groth16.Verify: a return, a fault, or the
\* arguments handed to the engine (engine "pending").
RunBody(curveID, parser, input) ==
    IF ~Supported(curveID) THEN UnsupportedCurve
    ELSE
    LET params == Groth16Params[curveID]
        length == input.len
        minInputSize == params.proofSize + params.vkSize
        numberOfPublicInputs == calculateNumberOfPublicInputs(input, params)
        vkTotalSize == params.vkSize + params.g1Size * (numberOfPublicInputs + 1)
        proofAndVkSize == params.proofSize + vkTotalSize
        proofBytes == SafeSlice(input, 0, params.proofSize).slice
        vkBytes == SafeSlice(input, params.proofSize, proofAndVkSize).slice
        publicWitnessBytes ==
            SafeSlice(input, proofAndVkSize,
                      proofAndVkSize
                          + numberOfPublicInputs * params.singlePublicInputSize).slice
        proof == ParserParseProof(parser, proofBytes)
        vk == ParserParseVerifyingKey(parser, vkBytes, numberOfPublicInputs)
        publicWitness ==
            ParserParsePublicWitness(parser, publicWitnessBytes, numberOfPublicInputs)
        calls1 == <<Call("ParseProof", proofBytes, 0)>>
        calls2 == Append(calls1, Call("ParseVerifyingKey", vkBytes, numberOfPublicInputs))
        calls3 == Append(calls2, Call("ParsePublicWitness", publicWitnessBytes,
                                      numberOfPublicInputs))
        calls4 == Append(calls3, Call("Verify", Zeroes(0), numberOfPublicInputs))
        n == numberOfPublicInputs
    IN  IF RejectsLength(length, minInputSize)
            THEN Return(NilBytes, ErrorGroth16VerifyInvalidInputLength, <<>>, 0, "none")
        ELSE IF RejectsCount(numberOfPublicInputs)
            THEN Return(NilBytes, ErrorGroth16VerifyInvalidInputLength, <<>>, n, "none")
        ELSE IF proof.kind = "panic"
            THEN Fault(NoError, calls1, n, "none")
        ELSE IF proof.kind = "err"
            THEN Return(NilBytes, ProofError(proof.err), calls1, n, "none")
        ELSE IF vk.kind = "panic"
            THEN Fault(proof.err, calls2, n, "none")
        ELSE IF vk.kind = "err"
            THEN Return(NilBytes, VerifyingKeyError(vk.err), calls2, n, "none")
        ELSE IF publicWitness.kind = "panic"
            THEN Fault(vk.err, calls3, n, "none")
        ELSE IF publicWitness.kind = "err"
            THEN Return(NilBytes, PublicWitnessError(publicWitness.err), calls3, n, "none")
        ELSE [Return(NilBytes, publicWitness.err, calls4, n, "pending")
                 EXCEPT !.arguments = <<proof.value, vk.value, publicWitness.value>>]

\* Mutant: a failed verification is returned as {0} with an error.
VerifyReturnsError(body, outcome) ==
    IF body.engine # "pending" THEN body
    ELSE IF outcome = "panic"
        THEN [body EXCEPT !.panicked = TRUE, !.engine = outcome]
    ELSE IF outcome = "invalid"
        THEN [body EXCEPT !.ret = <<0>>, !.err = ErrorGroth16VerifyInvalidProof,
                          !.engine = outcome]
    ELSE [body EXCEPT !.ret = <<1>>, !.err = NoError, !.engine = outcome]

\* Mutant: the engine is called whatever the parser's methods returned.
VerifyAfterFailedParse(body, outcome) ==
    IF body.calls = <<>> THEN body
    ELSE IF outcome = "panic"
        THEN [body EXCEPT !.panicked = TRUE, !.engine = outcome]
    ELSE [body EXCEPT !.ret = VerifyResult(outcome), !.err = NoError,
                      !.engine = outcome]

\* The call of groth16.Verify and the two returns after it.
Verify(body, outcome) ==
    IF body.engine # "pending" THEN body
    ELSE IF outcome = "panic"
        THEN [body EXCEPT !.panicked = TRUE, !.engine = outcome]
    ELSE [body EXCEPT !.ret = VerifyResult(outcome), !.err = NoError,
                      !.engine = outcome]

\* Mutant: Run has no deferred recover.
RecoverNothing(body) == body

\* The deferred function of Run: recover() stops a fault, and both named
\* results are replaced.
Recover(body) ==
    IF body.panicked
        THEN [body EXCEPT !.panicked = FALSE, !.recovered = TRUE,
                          !.ret = NilBytes, !.err = ErrorPanicGroth16Verify]
        ELSE body

Run(body, outcome) == Recover(Verify(body, outcome))

(***************************************************************************)
(* The state machine: a verifier (curveID, parser) as constructed by       *)
(* newGroth16Verify, and the calls the host makes on it.  Call k has its   *)
(* calldata input[k]; Run and RequiredGas may each be applied to it.       *)
(***************************************************************************)
VARIABLES
    curveID,    \* Groth16Verify.curveID
    parser,     \* Groth16Verify.parser
    input,      \* input[k]: the calldata of call k
    ran,        \* ran[k]: Run(input[k]) has returned
    ret,        \* ret[k]: the bytes Run returned
    err,        \* err[k]: the error Run returned
    calls,      \* calls[k]: the parser and engine calls Run made, in order
    count,      \* count[k]: numberOfPublicInputs as Run computed it
    engine,     \* engine[k]: what the pairing engine did, "none" if not called
    recovered,  \* recovered[k]: Run's deferred function recovered a fault
    aborted,    \* aborted[k]: a fault left Run and reached the caller
    metered,    \* metered[k]: RequiredGas(input[k]) has returned
    gas         \* gas[k]: the uint64 RequiredGas returned

vars ==
    <<curveID, parser, input, ran, ret, err, calls, count, engine, recovered,
      aborted, metered, gas>>

VARIABLES
    codecStep,  \* "idle", or how far the round trip of a key went
    key,        \* the verifying key handed to SerializeVerifyingKey
    encoded,    \* the bytes SerializeVerifyingKey returned
    decoded     \* what ParseVerifyingKey returned on them

codecVars == <<codecStep, key, encoded, decoded>>

\* A verifying key of zero-valued points with length IC points.
ZeroKey(length) ==
    [Alpha |-> ZeroG1, Beta |-> ZeroG2, Gamma |-> ZeroG2, Delta |-> ZeroG2,
     K |-> [i \in 1..length |-> ZeroG1]]

\* No round trip of the codec is under way.
CodecIdle ==
    /\ codecStep = "idle"
    /\ key = ZeroKey(0)
    /\ encoded = Zeroes(0)
    /\ decoded = ParseOk(NilValue)

VARIABLES
    precompile, \* the BabyJubJub or Poseidon precompile the host calls
    calldata,   \* its input: [len, words], the 32-byte words that are not zero
    returned,   \* its Run has returned
    output,     \* the bytes Run returned
    failure,    \* the error Run returned
    crashed,    \* a fault left Run
    examined,   \* the library calls Run made, in order
    priced,     \* its RequiredGas has returned
    price       \* the gas RequiredGas returned

hostVars ==
    <<precompile, calldata, returned, output, failure, crashed, examined,
      priced, price>>

\* nil, and a slice by its length and content
NilOutput == [len |-> 0, content |-> <<>>]

\* make([]byte, length) as 32-byte words
ZeroWords(length) == [len |-> length, words |-> [i \in {} |-> "0"]]

HostNoCall ==
    /\ returned = FALSE
    /\ output = NilOutput
    /\ failure = NoError
    /\ crashed = FALSE
    /\ examined = <<>>
    /\ priced = FALSE
    /\ price = 0

\* No BabyJubJub or Poseidon precompile is called.
HostIdle ==
    /\ precompile = "none"
    /\ calldata = ZeroWords(0)
    /\ HostNoCall

\* The variables of the other components, which a call of Groth16Verify
\* leaves alone.
VARIABLES
    invoked,    \* a direct call of a codec function: [op, bytes, at, n]
    replied     \* what the call returned, NoReply before it returns

parseVars == <<invoked, replied>>

NoInvocation == [op |-> "none", bytes |-> Zeroes(0), at |-> 0, n |-> 0]

NoReply == [kind |-> "pending"]

\* No codec function is called directly.
ParseIdle ==
    /\ invoked = NoInvocation
    /\ replied = NoReply

VARIABLES
    witnessArgs,    \* ParsePublicWitness run statement by statement: its
                    \* arguments [data, numberOfPublicInputs]
    stage,          \* the statement it is at
    channel,        \* its channel: [made, capacity, closed, queue]
    witnessOffset,  \* its local `offset`
    publicWitness,  \* the values Fill has received
    witnessResult   \* what it returned

witnessVars ==
    <<witnessArgs, stage, channel, witnessOffset, publicWitness, witnessResult>>

NilChannel == [made |-> FALSE, capacity |-> 0, closed |-> FALSE, queue |-> <<>>]

\* No statement-by-statement run of ParsePublicWitness is under way.
WitnessIdle ==
    /\ witnessArgs = [data |-> Zeroes(0), numberOfPublicInputs |-> 0]
    /\ stage = "idle"
    /\ channel = NilChannel
    /\ witnessOffset = 0
    /\ publicWitness = <<>>
    /\ witnessResult = NoReply

otherVars == <<codecVars, hostVars, parseVars, witnessVars>>

OthersIdle == CodecIdle /\ HostIdle /\ ParseIdle /\ WitnessIdle

\* NewGroth16BN254Verify, and newGroth16Verify with any curve id and parser
\* (the tests bind the registered parser to an unsupported curve).
Verifiers ==
    {<<"BN254", p>> : p \in Parsers}
        \cup {<<"BLS12_377", SolidityBN254Parser>>,
              <<"BLS12_377", StubParser("panic", "ok", "ok")>>}

\* Calldata: make([]byte, n) for every length, and the serializations of
\* one and two public inputs with one byte of the proof, of the key or of
\* the witness flipped.
ExactLength(n) ==
    BN254Groth16ProofSize + BN254Groth16VerifyVerifyingKeySize
        + BN254Groth16G1Size * (n + 1) + n * BN254Groth16SinglePublicInputSize

FlippedInputs(n) ==
    {Flip(Zeroes(ExactLength(n)), p) :
        p \in {BN254Groth16ProofSize - 1,
               ExactLength(n) - n * BN254Groth16SinglePublicInputSize - 1,
               ExactLength(n) - 1}}

Inputs ==
    {Zeroes(n) : n \in 0..MaxInputLen} \cup FlippedInputs(1) \cup FlippedInputs(2)

\* The engine is a function of its arguments: two calls that hand it the
\* same proof, key and witness get the same outcome.
Consistent(k, body, outcome) ==
    \A j \in DOMAIN input \ {k} :
        (/\ ran[j]
         /\ engine[j] # "none"
         /\ parser.kind = "bn254"
         /\ count[j] = body.count
         /\ RunBody(curveID, parser, input[j]).arguments = body.arguments)
            => outcome = engine[j]

NoCall ==
    /\ ran = [k \in DOMAIN input |-> FALSE]
    /\ ret = [k \in DOMAIN input |-> NilBytes]
    /\ err = [k \in DOMAIN input |-> NoError]
    /\ calls = [k \in DOMAIN input |-> <<>>]
    /\ count = [k \in DOMAIN input |-> 0]
    /\ engine = [k \in DOMAIN input |-> "none"]
    /\ recovered = [k \in DOMAIN input |-> FALSE]
    /\ aborted = [k \in DOMAIN input |-> FALSE]
    /\ metered = [k \in DOMAIN input |-> FALSE]
    /\ gas = [k \in DOMAIN input |-> Uint64(0)]

\* The lengths at which Run's checks change their answer, and their
\* neighbours.
BoundaryLengths ==
    {0, BN254Groth16ProofSize + BN254Groth16VerifyVerifyingKeySize - 1,
     BN254Groth16ProofSize + BN254Groth16VerifyVerifyingKeySize,
     BN254Groth16ProofSize + BN254Groth16VerifyVerifyingKeySize + 1}
        \cup {l \in {ExactLength(n) + d :
                        n \in 0..(Groth16MaxPublicInputs + 1), d \in {-1, 0, 1}} :
                l <= MaxInputLen}

\* The calldata a verifier is called with: every length for the registered
\* parser, the boundary lengths for a stub.
InputsOf(v) ==
    IF v[2].kind = "bn254" THEN Inputs
    ELSE {Zeroes(n) : n \in BoundaryLengths}

Init ==
    /\ \E v \in Verifiers :
        /\ curveID = v[1]
        /\ parser = v[2]
        /\ \E data \in InputsOf(v) : input = <<data>>
    /\ NoCall
    /\ OthersIdle

\* Mutant: the named results of Run are kept in the shared receiver, so a
\* call overwrites what the other calls returned.
DoRunSharedResults(k) ==
    /\ ~ran[k]
    /\ \E body \in {RunBody(curveID, parser, input[k])} :
        \E outcome \in EngineOutcomes(parser) :
            /\ Consistent(k, body, outcome)
            /\ \E r \in {Run(body, outcome)} :
                /\ ran' = [ran EXCEPT ![k] = TRUE]
                /\ ret' = [j \in DOMAIN input |-> r.ret]
                /\ err' = [j \in DOMAIN input |-> r.err]
                /\ calls' = [calls EXCEPT ![k] = r.calls]
                /\ count' = [count EXCEPT ![k] = r.count]
                /\ engine' = [engine EXCEPT ![k] = r.engine]
                /\ recovered' = [recovered EXCEPT ![k] = r.recovered]
                /\ aborted' = [aborted EXCEPT ![k] = r.panicked]
    /\ UNCHANGED <<curveID, parser, input, metered, gas>>
    /\ UNCHANGED otherVars

DoRun(k) ==
    /\ ~ran[k]
    /\ \E body \in {RunBody(curveID, parser, input[k])} :
        \E outcome \in EngineOutcomes(parser) :
            /\ Consistent(k, body, outcome)
            /\ \E r \in {Run(body, outcome)} :
                /\ ran' = [ran EXCEPT ![k] = TRUE]
                /\ ret' = [ret EXCEPT ![k] = r.ret]
                /\ err' = [err EXCEPT ![k] = r.err]
                /\ calls' = [calls EXCEPT ![k] = r.calls]
                /\ count' = [count EXCEPT ![k] = r.count]
                /\ engine' = [engine EXCEPT ![k] = r.engine]
                /\ recovered' = [recovered EXCEPT ![k] = r.recovered]
                /\ aborted' = [aborted EXCEPT ![k] = r.panicked]
    /\ UNCHANGED <<curveID, parser, input, metered, gas>>
    /\ UNCHANGED otherVars

DoRequiredGas(k) ==
    /\ ~metered[k]
    /\ metered' = [metered EXCEPT ![k] = TRUE]
    /\ gas' = [gas EXCEPT ![k] = RequiredGas(curveID, input[k])]
    /\ UNCHANGED <<curveID, parser, input, ran, ret, err, calls, count, engine,
                   recovered, aborted>>
    /\ UNCHANGED otherVars

\* The host calls Run, or RequiredGas, on one of its calls.
CallRun == \E k \in DOMAIN input : DoRun(k)

CallRequiredGas == \E k \in DOMAIN input : DoRequiredGas(k)

Next == CallRun \/ CallRequiredGas

Spec == Init /\ [][Next]_vars

(***************************************************************************)
(* Properties of Run and RequiredGas on one call (Spec).                   *)
(***************************************************************************)
\* The count a length implies, as the layout states it:
\* n = (len - 256 - 448 - 64) / 96.
ImpliedCount(length) == GoDiv(length - 256 - 448 - 64, 96)

\* TRUE when calldata of this length has the exact layout of n inputs,
\* 1 <= n <= 64.
ExactLayout(length) == \E n \in 1..64 : length = 768 + 96 * n

\* C1: on the BN254 curve Run returns InvalidInputLength, with no output and
\* without a call of a parser or of the engine, for every length below 704,
\* for 704, and for every length whose implied count is <= 0 or > 64.
C1_LengthRejected ==
    \A k \in DOMAIN input :
        (/\ ran[k]
         /\ curveID = "BN254"
         /\ \/ input[k].len <= 704
            \/ ImpliedCount(input[k].len) <= 0
            \/ ImpliedCount(input[k].len) > 64)
            => /\ err[k] = ErrorGroth16VerifyInvalidInputLength
               /\ ret[k] = NilBytes
               /\ calls[k] = <<>>
               /\ engine[k] = "none"

\* The registered BN254 verifier has rejected 7008 bytes (count 65).
C1_Witness ==
    /\ ran[1]
    /\ curveID = "BN254"
    /\ parser = SolidityBN254Parser
    /\ input[1].len = 7008
    /\ err[1] = ErrorGroth16VerifyInvalidInputLength

\* C2 (as claimed): on a supported curve every length that is not
\* 768 + 96n for some n in 1..64 yields InvalidInputLength.
C2_NonAlignedRejected ==
    \A k \in DOMAIN input :
        (ran[k] /\ Supported(curveID) /\ ~ExactLayout(input[k].len))
            => err[k] = ErrorGroth16VerifyInvalidInputLength

\* C3: on a curve that is not registered Run returns (nil, UnsupportedCurve)
\* for every input, the empty one included, before any other check, and
\* RequiredGas returns 0.
C3_UnsupportedCurve ==
    \A k \in DOMAIN input :
        ~Supported(curveID)
            => /\ ran[k] => /\ ret[k] = NilBytes
                            /\ err[k] = ErrorGroth16VerifyUnsupportedCurve
                            /\ calls[k] = <<>>
               /\ metered[k] => gas[k] = Uint64(0)

\* Both operations have returned on the empty input of an unregistered curve.
C3_Witness ==
    /\ curveID = "BLS12_377"
    /\ input[1].len = 0
    /\ ran[1]
    /\ metered[1]
    /\ err[1] = ErrorGroth16VerifyUnsupportedCurve

\* C4: when Run returns no error its output is one byte, 1 when the engine's
\* predicate holds and 0 when it does not; a failed pairing check is a
\* return of {0} with a nil error.
C4_OneByteResult ==
    \A k \in DOMAIN input :
        ran[k] =>
            /\ err[k] = NoError =>
                /\ ret[k] \in {<<0>>, <<1>>}
                /\ engine[k] \in {"valid", "invalid"}
                /\ ret[k] = <<1>> <=> engine[k] = "valid"
            /\ engine[k] = "invalid" => (ret[k] = <<0>> /\ err[k] = NoError)

\* The engine has refused the proof of an accepted input.
C4_Witness ==
    /\ ran[1]
    /\ parser = SolidityBN254Parser
    /\ engine[1] = "invalid"
    /\ ret[1] = <<0>>
    /\ err[1] = NoError

\* C5: on every return of Run, the recovered fault included, an error comes
\* with a nil output and a nil error with an output of one byte.
C5_ErrorOrOutput ==
    \A k \in DOMAIN input :
        ran[k] => /\ err[k] # NoError => ret[k] = NilBytes
                  /\ err[k] = NoError => Len(ret[k]) = 1

\* Run has returned from a recovered fault of the engine.
C5_Witness ==
    /\ ran[1]
    /\ recovered[1]
    /\ engine[1] = "panic"
    /\ err[1] = ErrorPanicGroth16Verify
    /\ ret[1] = NilBytes

\* The last call Run made was to a parser method that faults, or the engine
\* faulted.
FaultRaised(k) ==
    \/ engine[k] = "panic"
    \/ /\ calls[k] # <<>>
       /\ parser.kind = "stub"
       /\ LET last == calls[k][Len(calls[k])].op
          IN  \/ last = "ParseProof" /\ parser.ParseProof = "panic"
              \/ last = "ParseVerifyingKey" /\ parser.ParseVerifyingKey = "panic"
              \/ last = "ParsePublicWitness" /\ parser.ParsePublicWitness = "panic"

\* C6: a fault raised by ParseProof, ParseVerifyingKey, ParsePublicWitness or
\* the engine is recovered: Run returns (nil, ErrorPanicGroth16Verify) and the
\* fault does not reach the caller.
C6_FaultRecovered ==
    \A k \in DOMAIN input :
        ran[k] =>
            /\ ~aborted[k]
            /\ FaultRaised(k) <=> recovered[k]
            /\ recovered[k] => (ret[k] = NilBytes /\ err[k] = ErrorPanicGroth16Verify)

\* ParseVerifyingKey has faulted after ParseProof returned, and Run returned the
\* panic error.
C6_Witness ==
    /\ ran[1]
    /\ parser.kind = "stub"
    /\ parser.ParseVerifyingKey = "panic"
    /\ Len(calls[1]) = 2
    /\ recovered[1]
    /\ err[1] = ErrorPanicGroth16Verify

\* What the parser returned on call i of Run.
ParserResult(c) ==
    CASE c.op = "ParseProof" -> ParserParseProof(parser, c.data)
      [] c.op = "ParseVerifyingKey" -> ParserParseVerifyingKey(parser, c.data, c.n)
      [] c.op = "ParsePublicWitness" -> ParserParsePublicWitness(parser, c.data, c.n)
      [] OTHER -> ParseOk(NilValue)

RunErrorOf(op) ==
    CASE op = "ParseProof" -> ErrorGroth16VerifyInvalidProof
      [] op = "ParseVerifyingKey" -> ErrorGroth16VerifyInvalidVerifyingKey
      [] op = "ParsePublicWitness" -> ErrorGroth16VerifyInvalidPublicWitness

\* C7: after the length checks, an error returned by ParseProof is reported
\* as InvalidProof, one by ParseVerifyingKey as InvalidVerifyingKey and one by
\* ParsePublicWitness as InvalidPublicWitness, whatever the parser's error
\* was, with a nil output.
C7_ParserErrorMapped ==
    \A k \in DOMAIN input :
        (ran[k] /\ calls[k] # <<>>) =>
            \E last \in {calls[k][Len(calls[k])]} :
                \E result \in {ParserResult(last)} :
                    result.kind = "err" =>
                        /\ err[k] = RunErrorOf(last.op)
                        /\ err[k] \notin {ErrorInvalidG1, ErrorInvalidG2,
                                          ErrorInvalidSlice}
                        /\ ret[k] = NilBytes

\* A parser's ParseVerifyingKey has returned InvalidG2 and Run returned
\* InvalidVerifyingKey.
C7_Witness ==
    /\ ran[1]
    /\ parser.kind = "stub"
    /\ parser.ParseVerifyingKey = ErrorInvalidG2
    /\ Len(calls[1]) = 2
    /\ err[1] = ErrorGroth16VerifyInvalidVerifyingKey

\* C8: on a supported curve RequiredGas is 220000 + 26700 * n for the count n
\* of calculateNumberOfPublicInputs, the count Run computes; for an input Run
\* accepts with count n it is 220000 + 26700 * n, 246700 for n = 1 and
\* 273400 for n = 2.
C8_GasTracksCount ==
    \A k \in DOMAIN input :
        (Supported(curveID) /\ metered[k] /\ ran[k]) =>
            /\ gas[k] = Uint64(220000 + 26700 * ImpliedCount(input[k].len))
            /\ input[k].len >= 704 => count[k] = ImpliedCount(input[k].len)
            /\ err[k] = NoError =>
                /\ count[k] \in 1..64
                /\ input[k].len >= 768 + 96 * count[k]
                /\ gas[k] = Uint64(220000 + 26700 * count[k])
                /\ count[k] = 1 => gas[k] = Uint64(246700)
                /\ count[k] = 2 => gas[k] = Uint64(273400)

\* An accepted input of two public inputs has been run and metered.
C8_Witness ==
    /\ ran[1]
    /\ metered[1]
    /\ parser = SolidityBN254Parser
    /\ input[1].len = 960
    /\ err[1] = NoError
    /\ count[1] = 2
    /\ gas[1] = Uint64(273400)

(***************************************************************************)
(* Two calls on one verifier (SpecPair): the registered BN254 verifier is  *)
(* called with two inputs, and the results of the calls are compared.      *)
(***************************************************************************)
\* gas1 <= gas2 on uint64
U64Leq(a, b) ==
    \/ a = b
    \/ \E k \in 0..7 : a[k] < b[k] /\ \A j \in (k + 1)..7 : a[j] = b[j]

\* buildInputSize of TestRequiredGasProperties: make([]byte, ...) of the
\* exact layout, for n1 <= n2 in 1..Groth16MaxPublicInputs.
OrderedLayouts ==
    {<<Zeroes(ExactLength(n1)), Zeroes(ExactLength(n2))>> :
        n1 \in 1..Groth16MaxPublicInputs, n2 \in 1..Groth16MaxPublicInputs}

\* The lengths of the layouts of 0, 1, 2, 64 and 65 public inputs, their
\* neighbours, and the lengths around proofSize + vkSize.
PairLengths ==
    {0, BN254Groth16ProofSize + BN254Groth16VerifyVerifyingKeySize - 1,
     BN254Groth16ProofSize + BN254Groth16VerifyVerifyingKeySize,
     BN254Groth16ProofSize + BN254Groth16VerifyVerifyingKeySize + 1}
        \cup {ExactLength(n) + d :
                n \in {0, 1, 2, Groth16MaxPublicInputs, Groth16MaxPublicInputs + 1},
                d \in {-1, 0, 1}}

\* Calldata of one length: all zero, or with one byte flipped in the proof
\* (first and last byte), in the key (first byte, last byte of Delta, last
\* byte of the first IC point, last byte) or in the witness (last byte).
Contents(length) ==
    {Zeroes(length)}
        \cup {Flip(Zeroes(length), p) :
                p \in {0, BN254Groth16ProofSize - 1, BN254Groth16ProofSize,
                       BN254Groth16ProofSize + BN254Groth16VerifyVerifyingKeySize - 1,
                       BN254Groth16ProofSize + BN254Groth16VerifyVerifyingKeySize
                           + BN254Groth16G1Size - 1,
                       length - BN254Groth16SinglePublicInputSize - 1,
                       length - 1}}

\* append(data, make([]byte, extra)...): data followed by zero bytes
Extended(data, extra) == [data EXCEPT !.len = @ + extra]

\* Calldata of an exact layout, and the same bytes followed by up to 95
\* bytes that leave the count as it is: zero bytes, or a set byte right
\* after the layout or at the very end.
TrailingPairs ==
    UNION {{<<a, Extended(a, extra)>> : a \in Contents(ExactLength(n))}
            \cup {<<Zeroes(ExactLength(n)),
                    Flip(Zeroes(ExactLength(n) + extra), p)>> :
                        p \in {ExactLength(n), ExactLength(n) + extra - 1}} :
           n \in {1, 2},
           extra \in {1, BN254Groth16G1Size + BN254Groth16SinglePublicInputSize - 1}}

InitPair ==
    /\ curveID = "BN254"
    /\ parser = SolidityBN254Parser
    /\ \/ \E pair \in {q \in OrderedLayouts : q[1].len <= q[2].len} : input = pair
       \/ \E pair \in TrailingPairs : input = pair
       \/ \E length \in PairLengths :
            \E a \in Contents(length), b \in Contents(length) : input = <<a, b>>
    /\ NoCall
    /\ OthersIdle

SpecPair == InitPair /\ [][Next]_vars

\* C9: for the inputs of the exact layout 768 + 96 n, RequiredGas is
\* non-decreasing in n over 1..64: n1 <= n2 implies
\* RequiredGas(input(n1)) <= RequiredGas(input(n2)).
C9_GasNonDecreasing ==
    \A i, j \in DOMAIN input :
        (/\ metered[i]
         /\ metered[j]
         /\ ExactLayout(input[i].len)
         /\ ExactLayout(input[j].len)
         /\ ImpliedCount(input[i].len) <= ImpliedCount(input[j].len))
            => U64Leq(gas[i], gas[j])

\* The layouts of 1 and of 64 public inputs have both been metered.
C9_Witness ==
    /\ metered[1]
    /\ metered[2]
    /\ input[1] = Zeroes(ExactLength(1))
    /\ input[2] = Zeroes(ExactLength(64))
    /\ gas[1] = Uint64(246700)
    /\ gas[2] = Uint64(1928800)

\* TRUE when Run's length checks let this length pass.
AcceptedLength(length) ==
    length >= 704 /\ ImpliedCount(length) \in 1..64

\* C10: with the BN254 parser the error of Run and the value of RequiredGas
\* depend on the length of the input only: on two inputs of one length Run
\* returns the same error and RequiredGas the same value, and on an input
\* of an accepted length Run returns no error whatever the content is (the
\* content decides the output byte only).
C10_LengthDecides ==
    /\ \A i, j \in DOMAIN input :
        input[i].len = input[j].len =>
            /\ (ran[i] /\ ran[j]) => err[i] = err[j]
            /\ (metered[i] /\ metered[j]) => gas[i] = gas[j]
    /\ \A k \in DOMAIN input :
        (ran[k] /\ AcceptedLength(input[k].len)) =>
            /\ err[k] = NoError
            /\ ret[k] \in {<<0>>, <<1>>}

\* The serialization of one public input verified, and the same bytes with
\* the last witness byte flipped did not: no error on either, the same gas.
C10_Witness ==
    /\ input[1] = Zeroes(ExactLength(1))
    /\ input[2] = Flip(Zeroes(ExactLength(1)), ExactLength(1) - 1)
    /\ ran[1] /\ ran[2]
    /\ metered[1] /\ metered[2]
    /\ ret[1] = <<1>> /\ ret[2] = <<0>>
    /\ err[1] = NoError /\ err[2] = NoError
    /\ gas[1] = gas[2]

(***************************************************************************)
(* The round trip of a verifying key through the codec (SpecCodec):        *)
(* SerializeVerifyingKey, then ParseVerifyingKey on the bytes.             *)
(***************************************************************************)
\* The exponents e of the values 2^e a coordinate takes: the lowest byte,
\* the second byte and the highest byte of its 32.
KeyExponents == {0, 8, 8 * (BN254Groth16FieldSize - 1)}

KeyValues == {[m |-> FlipValue, e |-> e] : e \in KeyExponents}

\* The keys of length IC points that differ from the zero key in one
\* coordinate.
KeysOf(length) ==
    LET zero == ZeroKey(length)
    IN  {zero}
        \cup {[zero EXCEPT !.Alpha.X = v] : v \in KeyValues}
        \cup {[zero EXCEPT !.Alpha.Y = v] : v \in KeyValues}
        \cup UNION {{[zero EXCEPT ![g].X.A1 = v], [zero EXCEPT ![g].X.A0 = v],
                     [zero EXCEPT ![g].Y.A1 = v], [zero EXCEPT ![g].Y.A0 = v]} :
                        g \in {"Beta", "Gamma", "Delta"}, v \in KeyValues}
        \cup UNION {{[zero EXCEPT !.K[i].X = v], [zero EXCEPT !.K[i].Y = v]} :
                        i \in 1..length, v \in KeyValues}

\* The Groth16 verifier is not called.
Groth16Idle ==
    /\ curveID = "BN254"
    /\ parser = SolidityBN254Parser
    /\ input = <<Zeroes(0)>>
    /\ NoCall

InitCodec ==
    /\ Groth16Idle
    /\ codecStep = "key"
    /\ \E n \in 0..MaxKeyInputs : key \in KeysOf(n + 1)
    /\ encoded = Zeroes(0)
    /\ decoded = ParseOk(NilValue)
    /\ HostIdle
    /\ ParseIdle
    /\ WitnessIdle

CallSerializeVerifyingKey ==
    /\ codecStep = "key"
    /\ codecStep' = "encoded"
    /\ encoded' = SerializeVerifyingKey(key)
    /\ UNCHANGED <<key, decoded, vars, hostVars, parseVars, witnessVars>>

CallParseVerifyingKey ==
    /\ codecStep = "encoded"
    /\ codecStep' = "decoded"
    /\ decoded' = ParseVerifyingKey(encoded, Len(key.K) - 1)
    /\ UNCHANGED <<key, encoded, vars, hostVars, parseVars, witnessVars>>

NextCodec == CallSerializeVerifyingKey \/ CallParseVerifyingKey

SpecCodec == InitCodec /\ [][NextCodec]_<<vars, otherVars>>

\* C11 (as claimed): for every verifying key vk with n + 1 IC points,
\* ParseVerifyingKey(SerializeVerifyingKey(vk), n) succeeds and yields a key
\* equal to vk in every component: Alpha, both coefficients of X and of Y of
\* Beta, Gamma and Delta, and every IC point.
C11_KeyRoundTrip ==
    codecStep = "decoded" => (decoded.kind = "ok" /\ decoded.value = key)

(***************************************************************************)
(* The BabyJubJub and Poseidon precompiles.  Their calldata is a sequence  *)
(* of 32-byte big-endian words; a word is one of the values below.         *)
(***************************************************************************)
BabyJubJubCurveFieldByteSize == 32
BabyJubJubCurveAffinePointSize == 2 * BabyJubJubCurveFieldByteSize
BabyJubJubCurveValidatePointInputSize == BabyJubJubCurveAffinePointSize
BabyJubJubCurveValidatePointGas == 10000

ErrorBabyJubJubCurvePointInvalid == "invalid point"
ErrorBabyJubJubCurveInvalidInputLength == "invalid input length"

\* *big.Int values: 0, 1, babyjub.SubOrder - 1, babyjub.SubOrder,
\* utils.FieldPrime - 1 and utils.FieldPrime, in increasing order; a nil
\* *big.Int; and the value of 32 bytes that straddle two words.
BigZero == "0"
BigOne == "1"
SubOrderMinusOne == "SubOrder-1"
SubOrder == "SubOrder"
FieldPrimeMinusOne == "FieldPrime-1"
FieldPrime == "FieldPrime"
NilBig == "nil"
Straddling == "straddling"

\* x.Cmp(y) on the values above
Cmp(x, y) ==
    LET rank(v) == CASE v = BigZero -> 0 [] v = BigOne -> 1
                     [] v = SubOrderMinusOne -> 2 [] v = SubOrder -> 3
                     [] v = FieldPrimeMinusOne -> 4 [] v = FieldPrime -> 5
    IN  IF rank(x) < rank(y) THEN -1 ELSE IF rank(x) = rank(y) THEN 0 ELSE 1

\* word `index` of the calldata
Word(data, index) ==
    IF index \in DOMAIN data.words THEN data.words[index] ELSE BigZero

\* calldata of `length` bytes whose words are `values`, in order
Words(length, values) ==
    [len |-> length,
     words |-> [i \in {j \in 0..(Len(values) - 1) : values[j + 1] # BigZero}
                    |-> values[i + 1]]]

\* Mutant: a read that ends at the last byte of the input fails.
ReadFieldShort(data, offset, size) ==
    IF offset < 0 \/ offset + size < 0 \/ offset > offset + size
            \/ offset + size >= data.len
        THEN [value |-> NilBig, offset |-> offset]
    ELSE [value |-> IF size = BabyJubJubCurveFieldByteSize
                        /\ offset % BabyJubJubCurveFieldByteSize = 0
                    THEN Word(data, offset \div BabyJubJubCurveFieldByteSize)
                    ELSE Straddling,
          offset |-> offset + size]

\* utils.ReadField(input, offset, size): the SafeSlice of [offset, offset +
\* size) as a big-endian integer and the next offset, or (nil, offset).
ReadField(data, offset, size) ==
    IF offset < 0 \/ offset + size < 0 \/ offset > offset + size
            \/ offset + size > data.len
        THEN [value |-> NilBig, offset |-> offset]
    ELSE [value |-> IF size = BabyJubJubCurveFieldByteSize
                        /\ offset % BabyJubJubCurveFieldByteSize = 0
                    THEN Word(data, offset \div BabyJubJubCurveFieldByteSize)
                    ELSE Straddling,
          offset |-> offset + size]

NilPoint == [nil |-> TRUE, X |-> NilBig, Y |-> NilBig]

Point(x, y) == [nil |-> FALSE, X |-> x, Y |-> y]

ReadAffinePoint(data, index) ==
    LET x == ReadField(data, index * BabyJubJubCurveAffinePointSize,
                       BabyJubJubCurveFieldByteSize)
        y == ReadField(data, x.offset, BabyJubJubCurveFieldByteSize)
    IN  IF x.value = NilBig \/ y.value = NilBig
            THEN [point |-> NilPoint, err |-> ErrorBabyJubJubCurvePointInvalid]
            ELSE [point |-> Point(x.value, y.value), err |-> NoError]

\* babyjub.Point.InCurve on coordinates in {0, 1, FieldPrime - 1}:
\* a x^2 + y^2 = 1 + d x^2 y^2 with a = 168700, d = 168696 holds for x = 0,
\* y = 1 or -1, and for no other pair of these.
InCurve(point) ==
    point.X = BigZero /\ point.Y \in {BigOne, FieldPrimeMinusOne}

\* babyjub.Point.InSubGroup: in the curve, and SubOrder * p is the
\* identity; (0, 1) is the identity and (0, -1) has order 2.
InSubGroup(point) == InCurve(point) /\ point.Y = BigOne

\* The coordinates calldata is built from, and the points.
Coordinates == {BigZero, BigOne, FieldPrimeMinusOne}

\* How a Run ends: a return, or a fault (a method called on a nil point).
HostReturn(out, e, seen) ==
    [panicked |-> FALSE, ret |-> out, err |-> e, examined |-> seen]

HostFault(seen) ==
    [panicked |-> TRUE, ret |-> NilOutput, err |-> NoError, examined |-> seen]

OneByte(b) == [len |-> 1, content |-> <<b>>]

Examine(op, arg) == [op |-> op, arg |-> arg]

\* Mutant: the subgroup is not checked.
ValidatePointRunCurveOnly(data) ==
    IF data.len # BabyJubJubCurveValidatePointInputSize
        THEN HostReturn(NilOutput, ErrorBabyJubJubCurveInvalidInputLength, <<>>)
    ELSE LET point == ReadAffinePoint(data, 0).point
         IN  IF point.nil THEN HostFault(<<>>)
             ELSE HostReturn(OneByte(IF InCurve(point) THEN 1 ELSE 0), NoError,
                             <<Examine("InCurve", point)>>)

ValidatePointRun(data) ==
    IF data.len # BabyJubJubCurveValidatePointInputSize
        THEN HostReturn(NilOutput, ErrorBabyJubJubCurveInvalidInputLength, <<>>)
    ELSE LET point == ReadAffinePoint(data, 0).point
         IN  IF point.nil THEN HostFault(<<>>)
             ELSE IF ~InCurve(point)
                 THEN HostReturn(OneByte(0), NoError, <<Examine("InCurve", point)>>)
             ELSE IF ~InSubGroup(point)
                 THEN HostReturn(OneByte(0), NoError,
                                 <<Examine("InCurve", point),
                                   Examine("InSubGroup", point)>>)
             ELSE HostReturn(OneByte(1), NoError,
                             <<Examine("InCurve", point),
                               Examine("InSubGroup", point)>>)

ValidatePointRequiredGas(data) == BabyJubJubCurveValidatePointGas

BabyJubJubCurveEdDSAVerifyInputSize == 6 * BabyJubJubCurveFieldByteSize
BabyJubJubCurveEdDSAVerifyGas == 270000

ErrorBabyJubJubCurveEdDSAVerifyInvalidInputLength == "invalid input length"
ErrorBabyJubJubCurveEdDSAVerifyPublicKeyIsNotOnCurve == "public key is not on curve"
ErrorBabyJubJubCurveEdDSAVerifyR8IsNotOnCurve == "r8 is not on curve"
ErrorBabyJubJubCurveEdDSAVerifyInvalidS == "s is greater than suborder"

\* The fields Run reads, at the offset each ReadField before it returned.
EdDSAFields(data) ==
    LET f == BabyJubJubCurveFieldByteSize
        publicKeyX == ReadField(data, 0, f)
        publicKeyY == ReadField(data, publicKeyX.offset, f)
        r8X == ReadField(data, publicKeyY.offset, f)
        r8Y == ReadField(data, r8X.offset, f)
        S == ReadField(data, r8Y.offset, f)
        message == ReadField(data, S.offset, f)
    IN  [publicKeyPoint |-> Point(publicKeyX.value, publicKeyY.value),
         R8 |-> Point(r8X.value, r8Y.value),
         S |-> S.value,
         message |-> message.value]

\* Mutant: S equal to SubOrder passes the range check.
EdDSAVerifyRunAcceptsSubOrder(data, verified) ==
    IF data.len # BabyJubJubCurveEdDSAVerifyInputSize
        THEN HostReturn(NilOutput,
                        ErrorBabyJubJubCurveEdDSAVerifyInvalidInputLength, <<>>)
    ELSE LET in == EdDSAFields(data)
             one == <<Examine("InCurve", in.publicKeyPoint)>>
             sig == one \o <<Examine("InSubGroup", in.publicKeyPoint),
                             Examine("InCurve", in.R8)>>
             all == sig \o <<Examine("InSubGroup", in.R8)>>
         IN  IF ~InCurve(in.publicKeyPoint)
                 THEN HostReturn(NilOutput,
                         ErrorBabyJubJubCurveEdDSAVerifyPublicKeyIsNotOnCurve, one)
             ELSE IF ~InSubGroup(in.publicKeyPoint)
                 THEN HostReturn(NilOutput,
                         ErrorBabyJubJubCurveEdDSAVerifyPublicKeyIsNotOnCurve,
                         one \o <<Examine("InSubGroup", in.publicKeyPoint)>>)
             ELSE IF ~InCurve(in.R8)
                 THEN HostReturn(NilOutput,
                         ErrorBabyJubJubCurveEdDSAVerifyR8IsNotOnCurve, sig)
             ELSE IF ~InSubGroup(in.R8)
                 THEN HostReturn(NilOutput,
                         ErrorBabyJubJubCurveEdDSAVerifyR8IsNotOnCurve, all)
             ELSE IF Cmp(in.S, SubOrder) > 0
                 THEN HostReturn(NilOutput,
                         ErrorBabyJubJubCurveEdDSAVerifyInvalidS, all)
             ELSE HostReturn(OneByte(IF verified THEN 1 ELSE 0), NoError,
                             all \o <<Examine("VerifyPoseidon",
                                              <<in.publicKeyPoint, in.R8, in.S,
                                                in.message>>)>>)

\* BabyJubJubCurveEdDSAVerify.Run; `verified` is what
\* publicKey.VerifyPoseidon(message, signature) answers.  A nil *big.Int
\* (a failed ReadField) faults at its first use.
EdDSAVerifyRun(data, verified) ==
    IF data.len # BabyJubJubCurveEdDSAVerifyInputSize
        THEN HostReturn(NilOutput,
                        ErrorBabyJubJubCurveEdDSAVerifyInvalidInputLength, <<>>)
    ELSE LET in == EdDSAFields(data)
             one == <<Examine("InCurve", in.publicKeyPoint)>>
             sig == one \o <<Examine("InSubGroup", in.publicKeyPoint),
                             Examine("InCurve", in.R8)>>
             all == sig \o <<Examine("InSubGroup", in.R8)>>
         IN  IF NilBig \in {in.publicKeyPoint.X, in.publicKeyPoint.Y}
                 THEN HostFault(<<>>)
             ELSE IF ~InCurve(in.publicKeyPoint)
                 THEN HostReturn(NilOutput,
                         ErrorBabyJubJubCurveEdDSAVerifyPublicKeyIsNotOnCurve, one)
             ELSE IF ~InSubGroup(in.publicKeyPoint)
                 THEN HostReturn(NilOutput,
                         ErrorBabyJubJubCurveEdDSAVerifyPublicKeyIsNotOnCurve,
                         one \o <<Examine("InSubGroup", in.publicKeyPoint)>>)
             ELSE IF NilBig \in {in.R8.X, in.R8.Y}
                 THEN HostFault(one \o <<Examine("InSubGroup", in.publicKeyPoint)>>)
             ELSE IF ~InCurve(in.R8)
                 THEN HostReturn(NilOutput,
                         ErrorBabyJubJubCurveEdDSAVerifyR8IsNotOnCurve, sig)
             ELSE IF ~InSubGroup(in.R8)
                 THEN HostReturn(NilOutput,
                         ErrorBabyJubJubCurveEdDSAVerifyR8IsNotOnCurve, all)
             ELSE IF in.S = NilBig
                 THEN HostFault(all)
             ELSE IF Cmp(in.S, SubOrder) >= 0
                 THEN HostReturn(NilOutput,
                         ErrorBabyJubJubCurveEdDSAVerifyInvalidS, all)
             ELSE HostReturn(OneByte(IF verified THEN 1 ELSE 0), NoError,
                             all \o <<Examine("VerifyPoseidon",
                                              <<in.publicKeyPoint, in.R8, in.S,
                                                in.message>>)>>)

EdDSAVerifyRequiredGas(data) == BabyJubJubCurveEdDSAVerifyGas

\* Ax || Ay || R8x || R8y || S || M, and the lengths around its size.
EdDSAVerifyInputs ==
    {Words(BabyJubJubCurveEdDSAVerifyInputSize, <<ax, ay, rx, ry, s, m>>) :
        ax \in {BigZero, BigOne}, ay \in Coordinates,
        rx \in {BigZero, BigOne}, ry \in Coordinates,
        s \in {BigZero, SubOrderMinusOne, SubOrder, FieldPrimeMinusOne},
        m \in {BigZero, BigOne}}
        \cup {Words(n, <<BigZero, ay, BigZero, BigOne, s, BigZero>>) :
                n \in {0, BabyJubJubCurveEdDSAVerifyInputSize - 1,
                       BabyJubJubCurveEdDSAVerifyInputSize + 1,
                       2 * BabyJubJubCurveEdDSAVerifyInputSize},
                ay \in {BigZero, BigOne}, s \in {BigZero, SubOrder}}

BabyJubJubCurveAddInputSize == 2 * BabyJubJubCurveAffinePointSize

ErrorBabyJubJubCurveInvalidPoint == "point not in subgroup"
ErrorBabyJubJubCurvePointNotOnCurve == "point not on curve"

\* utils.MarshalPoint(point): x || y, each filled into 32 bytes.
MarshalPoint(point) ==
    [len |-> BabyJubJubCurveAffinePointSize,
     content |-> <<"point", point.X, point.Y>>]

\* NewPoint().Projective().Add(a, b).Affine() for points of the subgroup;
\* of the points the model builds only the identity (0, 1) is in it.
AddPoints(a, b) == Point(BigZero, BigOne)

AddRun(data) ==
    IF data.len # BabyJubJubCurveAddInputSize
        THEN HostReturn(NilOutput, ErrorBabyJubJubCurveInvalidInputLength, <<>>)
    ELSE LET point1 == ReadAffinePoint(data, 0).point
             point2 == ReadAffinePoint(data, 1).point
         IN  IF point1.nil THEN HostFault(<<>>)
             ELSE IF ~InSubGroup(point1)
                 THEN HostReturn(NilOutput, ErrorBabyJubJubCurveInvalidPoint,
                                 <<Examine("InSubGroup", point1)>>)
             ELSE IF point2.nil
                 THEN HostFault(<<Examine("InSubGroup", point1)>>)
             ELSE IF ~InSubGroup(point2)
                 THEN HostReturn(NilOutput, ErrorBabyJubJubCurveInvalidPoint,
                                 <<Examine("InSubGroup", point1),
                                   Examine("InSubGroup", point2)>>)
             ELSE HostReturn(MarshalPoint(AddPoints(point1, point2)), NoError,
                             <<Examine("InSubGroup", point1),
                               Examine("InSubGroup", point2)>>)

AddRequiredGas(data) == BabyJubJubCurveAddGas

\* Two affine points, and the lengths around their size.
AddInputs ==
    {Words(BabyJubJubCurveAddInputSize, <<x1, y1, x2, y2>>) :
        x1 \in {BigZero, BigOne}, y1 \in Coordinates,
        x2 \in {BigZero, BigOne}, y2 \in Coordinates}
        \cup {Words(n, <<x1, y1, BigZero, BigOne>>) :
                n \in {0, BabyJubJubCurveAffinePointSize,
                       BabyJubJubCurveAddInputSize - 1,
                       BabyJubJubCurveAddInputSize + 1},
                x1 \in {BigZero, BigOne}, y1 \in {BigOne}}

BabyJubJubCurveMulInputSize == 3 * BabyJubJubCurveFieldByteSize

ErrorBabyJubJubCurvePointNotInSubgroup == "point not in subgroup"

\* babyjub.NewPoint().Mul(scalar, point) for a point of the subgroup; of the
\* points the model builds only the identity (0, 1) is in it.
MulPoint(scalar, point) == Point(BigZero, BigOne)

\* BabyJubJubCurveMul.Run.  point.InCurve() on a nil point and scalar.Mod on
\* a nil scalar fault.
MulRun(data) ==
    IF data.len # BabyJubJubCurveMulInputSize
        THEN HostReturn(NilOutput, ErrorBabyJubJubCurveInvalidInputLength, <<>>)
    ELSE LET point == ReadAffinePoint(data, 0).point
             scalar == ReadField(data, BabyJubJubCurveAffinePointSize,
                                 BabyJubJubCurveFieldByteSize).value
             both == <<Examine("InCurve", point), Examine("InSubGroup", point)>>
         IN  IF point.nil THEN HostFault(<<>>)
             ELSE IF ~InCurve(point)
                 THEN HostReturn(NilOutput, ErrorBabyJubJubCurvePointNotOnCurve,
                                 <<Examine("InCurve", point)>>)
             ELSE IF ~InSubGroup(point)
                 THEN HostReturn(NilOutput, ErrorBabyJubJubCurvePointNotInSubgroup,
                                 both)
             ELSE IF scalar = NilBig THEN HostFault(both)
             ELSE HostReturn(MarshalPoint(MulPoint(scalar, point)), NoError,
                             both \o <<Examine("Mul", <<scalar, point>>)>>)

MulRequiredGas(data) == BabyJubJubCurveMulGas

\* x || y || scalar, and the lengths around its size.
MulInputs ==
    {Words(BabyJubJubCurveMulInputSize, <<x, y, scalar>>) :
        x \in {BigZero, BigOne}, y \in Coordinates,
        scalar \in {BigZero, BigOne, SubOrder, FieldPrimeMinusOne}}
        \cup {Words(n, <<BigZero, BigOne, scalar>>) :
                n \in {0, BabyJubJubCurveAffinePointSize,
                       BabyJubJubCurveMulInputSize - 1,
                       BabyJubJubCurveMulInputSize + 1},
                scalar \in {BigZero, BigOne}}

PoseidonInputWordSize == 32
PoseidonMaxParams == 16
PoseidonBaseGas == 600
PoseidonPerWordGas == 5400

ErrorPoseidonInvalidInputLength == "invalid input length"

\* the error of poseidon.Hash for an element outside the field
ErrorPoseidonNotInField == "inputs values not inside Finite Field"

\* poseidon.Hash(elements): an error when an element is not below the field
\* prime, the hash otherwise (Run never hands it 0 or more than 16
\* elements, which it refuses too).
PoseidonHash(elements) ==
    IF \E i \in DOMAIN elements : Cmp(elements[i], FieldPrime) >= 0
        THEN [err |-> ErrorPoseidonNotInField, hash |-> <<>>]
        ELSE [err |-> NoError, hash |-> <<"poseidon", elements>>]

\* hash.FillBytes(make([]byte, size))
FillBytes(hash, size) == [len |-> size, content |-> hash]

\* The loop `for index := range length` of Run.
PoseidonElements(data, length) ==
    [index \in 1..length |->
        ReadField(data, (index - 1) * PoseidonInputWordSize,
                  PoseidonInputWordSize).value]

\* Mutant: an input of PoseidonMaxParams words is refused.
PoseidonRunBelowMaximum(data) ==
    IF data.len = 0 \/ data.len % PoseidonInputWordSize # 0
        THEN HostReturn(NilOutput, ErrorPoseidonInvalidInputLength, <<>>)
    ELSE IF data.len \div PoseidonInputWordSize >= PoseidonMaxParams
        THEN HostReturn(NilOutput, ErrorPoseidonInvalidInputLength, <<>>)
    ELSE LET elements ==
                 PoseidonElements(data, data.len \div PoseidonInputWordSize)
             hashed == PoseidonHash(elements)
         IN  IF hashed.err # NoError
                 THEN HostReturn(NilOutput, hashed.err,
                                 <<Examine("Hash", elements)>>)
                 ELSE HostReturn(FillBytes(hashed.hash, PoseidonInputWordSize),
                                 NoError, <<Examine("Hash", elements)>>)

PoseidonRun(data) ==
    IF data.len = 0 \/ data.len % PoseidonInputWordSize # 0
        THEN HostReturn(NilOutput, ErrorPoseidonInvalidInputLength, <<>>)
    ELSE IF data.len \div PoseidonInputWordSize > PoseidonMaxParams
        THEN HostReturn(NilOutput, ErrorPoseidonInvalidInputLength, <<>>)
    ELSE LET elements ==
                 PoseidonElements(data, data.len \div PoseidonInputWordSize)
             hashed == PoseidonHash(elements)
         IN  IF hashed.err # NoError
                 THEN HostReturn(NilOutput, hashed.err,
                                 <<Examine("Hash", elements)>>)
                 ELSE HostReturn(FillBytes(hashed.hash, PoseidonInputWordSize),
                                 NoError, <<Examine("Hash", elements)>>)

\* Mutant: the word count is rounded down.
PoseidonRequiredGasWholeWords(data) ==
    (data.len \div PoseidonInputWordSize) * PoseidonPerWordGas + PoseidonBaseGas

\* uint64 arithmetic; below 2^31 for every length of the model.
PoseidonRequiredGas(data) ==
    ((data.len + (PoseidonInputWordSize - 1)) \div PoseidonInputWordSize)
        * PoseidonPerWordGas + PoseidonBaseGas

\* make([]byte, n) for every length, and the inputs of 1..17 words with the
\* first or the last word set.
PoseidonInputs ==
    {ZeroWords(n) : n \in 0..(MaxPoseidonWords * PoseidonInputWordSize + 1)}
        \cup {[len |-> w * PoseidonInputWordSize, words |-> [i \in {at} |-> v]] :
                w \in 1..(PoseidonMaxParams + 1),
                at \in {0, PoseidonMaxParams - 1, PoseidonMaxParams},
                v \in {BigOne, FieldPrimeMinusOne, FieldPrime}}

\* One affine point, and the lengths around its size.
ValidatePointInputs ==
    {Words(BabyJubJubCurveValidatePointInputSize, <<x, y>>) :
        x \in Coordinates, y \in Coordinates}
        \cup {Words(n, <<x, y>>) :
                n \in {0, 1, BabyJubJubCurveFieldByteSize,
                       BabyJubJubCurveValidatePointInputSize - 1,
                       BabyJubJubCurveValidatePointInputSize + 1,
                       2 * BabyJubJubCurveValidatePointInputSize},
                x \in {BigZero}, y \in {BigZero, BigOne}}

Precompiles ==
    {"BabyJubJubCurveValidatePoint", "BabyJubJubEdDSAVerify", "Poseidon",
     "BabyJubJubCurveAdd", "BabyJubJubMul"}

HostInputs(name) ==
    CASE name = "BabyJubJubCurveValidatePoint" -> ValidatePointInputs
      [] name = "BabyJubJubEdDSAVerify" -> EdDSAVerifyInputs
      [] name = "Poseidon" -> PoseidonInputs
      [] name = "BabyJubJubCurveAdd" -> AddInputs
      [] name = "BabyJubJubMul" -> MulInputs

InitHost ==
    /\ Groth16Idle
    /\ CodecIdle
    /\ ParseIdle
    /\ WitnessIdle
    /\ precompile \in Precompiles
    /\ calldata \in HostInputs(precompile)
    /\ HostNoCall

\* The host takes what a Run gave.
Deliver(r) ==
    /\ returned' = TRUE
    /\ output' = r.ret
    /\ failure' = r.err
    /\ crashed' = r.panicked
    /\ examined' = r.examined
    /\ UNCHANGED <<precompile, calldata, priced, price, vars, codecVars,
                   parseVars, witnessVars>>

\* The host takes the gas a RequiredGas gave.
Charge(g) ==
    /\ priced' = TRUE
    /\ price' = g
    /\ UNCHANGED <<precompile, calldata, returned, output, failure, crashed,
                   examined, vars, codecVars, parseVars, witnessVars>>

CallValidatePointRun ==
    /\ precompile = "BabyJubJubCurveValidatePoint"
    /\ ~returned
    /\ Deliver(ValidatePointRun(calldata))

CallValidatePointRequiredGas ==
    /\ precompile = "BabyJubJubCurveValidatePoint"
    /\ ~priced
    /\ Charge(ValidatePointRequiredGas(calldata))

CallEdDSAVerifyRun ==
    /\ precompile = "BabyJubJubEdDSAVerify"
    /\ ~returned
    /\ \E verified \in BOOLEAN : Deliver(EdDSAVerifyRun(calldata, verified))

CallEdDSAVerifyRequiredGas ==
    /\ precompile = "BabyJubJubEdDSAVerify"
    /\ ~priced
    /\ Charge(EdDSAVerifyRequiredGas(calldata))

CallPoseidonRun ==
    /\ precompile = "Poseidon"
    /\ ~returned
    /\ Deliver(PoseidonRun(calldata))

CallPoseidonRequiredGas ==
    /\ precompile = "Poseidon"
    /\ ~priced
    /\ Charge(PoseidonRequiredGas(calldata))

CallAddRun ==
    /\ precompile = "BabyJubJubCurveAdd"
    /\ ~returned
    /\ Deliver(AddRun(calldata))

CallAddRequiredGas ==
    /\ precompile = "BabyJubJubCurveAdd"
    /\ ~priced
    /\ Charge(AddRequiredGas(calldata))

CallMulRun ==
    /\ precompile = "BabyJubJubMul"
    /\ ~returned
    /\ Deliver(MulRun(calldata))

CallMulRequiredGas ==
    /\ precompile = "BabyJubJubMul"
    /\ ~priced
    /\ Charge(MulRequiredGas(calldata))

NextHost ==
    \/ CallMulRun
    \/ CallMulRequiredGas
    \/ CallValidatePointRun
    \/ CallValidatePointRequiredGas
    \/ CallEdDSAVerifyRun
    \/ CallEdDSAVerifyRequiredGas
    \/ CallPoseidonRun
    \/ CallPoseidonRequiredGas
    \/ CallAddRun
    \/ CallAddRequiredGas

SpecHost == InitHost /\ [][NextHost]_<<vars, otherVars>>

\* C12: BabyJubJubCurveValidatePoint.Run returns (nil, InvalidInputLength)
\* if and only if the input is not 64 bytes long; on 64 bytes it returns {1}
\* exactly when the point is on the curve and in the subgroup and {0}
\* otherwise, never an error.
C12_ValidatePoint ==
    (precompile = "BabyJubJubCurveValidatePoint" /\ returned) =>
        /\ ~crashed
        /\ failure # NoError <=> calldata.len # 64
        /\ failure # NoError =>
            (failure = ErrorBabyJubJubCurveInvalidInputLength /\ output = NilOutput)
        /\ calldata.len = 64 =>
            \E point \in {Point(Word(calldata, 0), Word(calldata, 1))} :
                /\ output = OneByte(IF InCurve(point) /\ InSubGroup(point)
                                    THEN 1 ELSE 0)
                /\ failure = NoError

\* The point (0, -1), on the curve and outside the subgroup, was reported
\* as {0} with no error.
C12_Witness ==
    /\ precompile = "BabyJubJubCurveValidatePoint"
    /\ returned
    /\ calldata = Words(64, <<BigZero, FieldPrimeMinusOne>>)
    /\ output = OneByte(0)
    /\ failure = NoError

\* TRUE when the point is on the curve and in the subgroup.
ValidPoint(point) == InCurve(point) /\ InSubGroup(point)

\* C13: BabyJubJubCurveEdDSAVerify.Run reports the first failing check in
\* the order: length not 192, public key not on the curve or not in the
\* subgroup, R8 not on the curve or not in the subgroup, S >= SubOrder (S
\* equal to SubOrder is refused); when all four pass it returns {1} or {0}
\* with no error.
C13_EdDSAPrecedence ==
    (precompile = "BabyJubJubEdDSAVerify" /\ returned) =>
        \E publicKey \in {Point(Word(calldata, 0), Word(calldata, 1))} :
        \E R8 \in {Point(Word(calldata, 2), Word(calldata, 3))} :
        \E S \in {Word(calldata, 4)} :
            /\ ~crashed
            /\ failure =
                (IF calldata.len # 192
                    THEN ErrorBabyJubJubCurveEdDSAVerifyInvalidInputLength
                 ELSE IF ~ValidPoint(publicKey)
                    THEN ErrorBabyJubJubCurveEdDSAVerifyPublicKeyIsNotOnCurve
                 ELSE IF ~ValidPoint(R8)
                    THEN ErrorBabyJubJubCurveEdDSAVerifyR8IsNotOnCurve
                 ELSE IF S \in {SubOrder, FieldPrimeMinusOne}
                    THEN ErrorBabyJubJubCurveEdDSAVerifyInvalidS
                 ELSE NoError)
            /\ failure # NoError => output = NilOutput
            /\ failure = NoError => output \in {OneByte(0), OneByte(1)}

\* An input of 192 bytes with a public key off the curve, R8 outside the
\* subgroup and S = SubOrder got the public-key error.
C13_Witness ==
    /\ precompile = "BabyJubJubEdDSAVerify"
    /\ returned
    /\ calldata = Words(192, <<BigOne, BigOne, BigZero, FieldPrimeMinusOne,
                               SubOrder, BigZero>>)
    /\ failure = ErrorBabyJubJubCurveEdDSAVerifyPublicKeyIsNotOnCurve

\* C14: Poseidon.Run returns ErrorPoseidonInvalidInputLength exactly when
\* the input is empty, or its length is not a multiple of 32, or it holds
\* more than 16 words; on every other input it hashes the len/32 elements
\* read at offsets 0, 32, 64, ..., and when the hash succeeds it returns 32
\* bytes.
C14_PoseidonRun ==
    (precompile = "Poseidon" /\ returned) =>
        \E rejected \in {calldata.len = 0 \/ calldata.len % 32 # 0
                            \/ calldata.len \div 32 > 16} :
            /\ ~crashed
            /\ failure = ErrorPoseidonInvalidInputLength <=> rejected
            /\ rejected => (examined = <<>> /\ output = NilOutput)
            /\ ~rejected =>
                /\ Len(examined) = 1
                /\ examined[1].op = "Hash"
                /\ examined[1].arg =
                    [i \in 1..(calldata.len \div 32) |-> Word(calldata, i - 1)]
            /\ failure = NoError => output.len = 32
            /\ failure # NoError => output = NilOutput

\* Sixteen words, the last of them FieldPrime - 1, were hashed to 32 bytes.
C14_Witness ==
    /\ precompile = "Poseidon"
    /\ returned
    /\ calldata.len = 512
    /\ Word(calldata, 15) = FieldPrimeMinusOne
    /\ Len(examined[1].arg) = 16
    /\ failure = NoError
    /\ output.len = 32

\* C15: Poseidon.RequiredGas(input) = PoseidonBaseGas + ceil(len(input)/32)
\* * PoseidonPerWordGas for every input, 600 for the empty input and also
\* for inputs Run rejects; for exactly w words, 1 <= w <= 255, it is
\* w * 5400 + 600.
C15_PoseidonGas ==
    (precompile = "Poseidon" /\ priced) =>
        /\ price = 600 + 5400 * ((calldata.len \div 32)
                                 + (IF calldata.len % 32 = 0 THEN 0 ELSE 1))
        /\ calldata.len = 0 => price = 600
        /\ \A w \in 1..255 : calldata.len = 32 * w => price = w * 5400 + 600

\* 255 words, which Run rejected, cost 255 * 5400 + 600.
C15_Witness ==
    /\ precompile = "Poseidon"
    /\ priced
    /\ returned
    /\ calldata.len = 255 * 32
    /\ failure = ErrorPoseidonInvalidInputLength
    /\ price = 1377600

\* The calldata holds a point of the curve in its words index, index + 1.
OnCurveAt(index) ==
    InCurve(Point(Word(calldata, index), Word(calldata, index + 1)))

\* C16: BabyJubJubCurveAdd.Run rejects a 128-byte input with a point that
\* is not on the curve with the error "point not on curve" and no output,
\* and rejects a wrong-length input with the invalid-input-length error
\* before any point is examined.
C16_AddRejectsOffCurve ==
    (precompile = "BabyJubJubCurveAdd" /\ returned) =>
        /\ ~crashed
        /\ calldata.len # 128 =>
            /\ failure = ErrorBabyJubJubCurveInvalidInputLength
            /\ examined = <<>>
            /\ output = NilOutput
        /\ (calldata.len = 128 /\ (~OnCurveAt(0) \/ ~OnCurveAt(2))) =>
            /\ failure = ErrorBabyJubJubCurvePointNotOnCurve
            /\ output = NilOutput

(***************************************************************************)
(* Two calls on one verifier, interleaved (SpecPair).                      *)
(***************************************************************************)
\* What call k has returned so far.
ResultsOf(k) ==
    <<ran[k], ret[k], err[k], aborted[k], metered[k], gas[k]>>

\* What Run does on this calldata up to the call of the engine, and what
\* RequiredGas returns on it, when nothing else runs.
RunAlone(data) == RunBody("BN254", SolidityBN254Parser, data)

RequiredGasAlone(data) == RequiredGas("BN254", data)

StepOrder == <<"ParseProof", "ParseVerifyingKey", "ParsePublicWitness", "Verify">>

\* TRUE when the curve lookup or a length check of Run stops this call.
StoppedBeforeParsing(k) ==
    \/ curveID # "BN254"
    \/ input[k].len < 704
    \/ ImpliedCount(input[k].len) <= 0
    \/ ImpliedCount(input[k].len) > 64

\* C18: Run takes its steps in the order curve lookup, minimum-length check,
\* count check, ParseProof, ParseVerifyingKey, ParsePublicWitness, pairing
\* verification, and takes a step only if every step before it succeeded:
\* the calls it makes are a prefix of that order, every call but the last
\* one succeeded, the prefix ends early only at a failed call, the engine is
\* called only after three successful parses, and no parser is called for an
\* input the curve lookup or a length check rejects.
C18_StepOrder ==
    \A k \in DOMAIN input :
        ran[k] =>
            /\ Len(calls[k]) <= Len(StepOrder)
            /\ \A i \in DOMAIN calls[k] : calls[k][i].op = StepOrder[i]
            /\ \A i \in DOMAIN calls[k] :
                i < Len(calls[k]) => ParserResult(calls[k][i]).kind = "ok"
            /\ StoppedBeforeParsing(k) <=> calls[k] = <<>>
            /\ (calls[k] # <<>> /\ Len(calls[k]) < Len(StepOrder)) =>
                ParserResult(calls[k][Len(calls[k])]).kind # "ok"
            /\ engine[k] # "none" <=> Len(calls[k]) = Len(StepOrder)

\* ParseProof returned an error: Run made no other call and returned
\* InvalidProof.
C18_Witness ==
    /\ ran[1]
    /\ parser.kind = "stub"
    /\ parser.ParseProof = ErrorInvalidG1
    /\ calls[1] = <<Call("ParseProof", Zeroes(256), 0)>>
    /\ engine[1] = "none"
    /\ err[1] = ErrorGroth16VerifyInvalidProof

\* C19 (as claimed): on BN254 an input whose length passes the count bounds
\* (1 <= n <= 64) but is not 768 + 96n is not accepted: Run returns
\* InvalidPublicWitness for it, with no output.
C19_InexactLengthFailsWitness ==
    \A k \in DOMAIN input :
        (/\ ran[k]
         /\ curveID = "BN254"
         /\ parser = SolidityBN254Parser
         /\ input[k].len >= 704
         /\ ImpliedCount(input[k].len) \in 1..64
         /\ ~ExactLayout(input[k].len))
            => /\ err[k] = ErrorGroth16VerifyInvalidPublicWitness
               /\ ret[k] = NilBytes

\* TRUE when piece is the size bytes of data from offset from on.
CutAt(piece, data, from, size) ==
    /\ piece.len = size
    /\ from >= 0
    /\ from + size <= data.len
    /\ \A i \in {piece.pos, data.pos - from} \cap (0..(size - 1)) :
        ByteAt(piece, i) = ByteAt(data, from + i)

\* C20: whenever an input passes Run's length validation with count n,
\* 256 + 448 + 64 (n + 1) + 32 n <= len(input), and the parser receives a
\* proof slice of exactly 256 bytes from offset 0, a verifying-key slice of
\* exactly 448 + 64 (n + 1) bytes from offset 256 and a witness slice of
\* exactly 32 n bytes from the end of the key: contiguous, not overlapping,
\* and inside the input, so that each SafeSlice of Run succeeds.
C20_SlicesInBounds ==
    \A k \in DOMAIN input :
        (/\ ran[k]
         /\ curveID = "BN254"
         /\ input[k].len >= 704
         /\ ImpliedCount(input[k].len) \in 1..64)
            => \E n \in {ImpliedCount(input[k].len)} :
                /\ count[k] = n
                /\ 256 + 448 + 64 * (n + 1) + 32 * n <= input[k].len
                /\ Len(calls[k]) >= 1
                /\ calls[k][1].op = "ParseProof"
                /\ CutAt(calls[k][1].data, input[k], 0, 256)
                /\ Len(calls[k]) >= 2 =>
                    /\ calls[k][2].op = "ParseVerifyingKey"
                    /\ calls[k][2].n = n
                    /\ CutAt(calls[k][2].data, input[k], 256, 448 + 64 * (n + 1))
                /\ Len(calls[k]) >= 3 =>
                    /\ calls[k][3].op = "ParsePublicWitness"
                    /\ calls[k][3].n = n
                    /\ CutAt(calls[k][3].data, input[k],
                             256 + 448 + 64 * (n + 1), 32 * n)
                /\ parser = SolidityBN254Parser => Len(calls[k]) >= 3

\* Two public inputs with the last byte of the key set: the key slice
\* carries that byte as its last one, the proof and witness slices are zero.
C20_Witness ==
    /\ ran[1]
    /\ parser = SolidityBN254Parser
    /\ input[1] = Flip(Zeroes(960), 895)
    /\ count[1] = 2
    /\ calls[1][1].data = Zeroes(256)
    /\ calls[1][2].data = Flip(Zeroes(640), 639)
    /\ calls[1][3].data = Zeroes(64)

(***************************************************************************)
(* The codec functions called directly (SpecParse): one call of ParseG1,   *)
(* ParseG2, ParseProof, ParseVerifyingKey, ParsePublicWitness or SafeSlice *)
(* on bytes, an offset and a count of the caller's choice.                 *)
(***************************************************************************)
\* data with byte p set to v
SetByte(data, p, v) ==
    IF p >= 0 /\ p < data.len /\ data.pos = -1
        THEN [len |-> data.len, pos |-> p, val |-> v]
        ELSE data

\* make([]byte, n) for every length, and bytes of the lengths of a point, a
\* proof and a key with the last byte of one 32-byte element set.
CodecData ==
    {Zeroes(n) : n \in 0..MaxCodecLen}
        \cup {Flip(Zeroes(n), p) :
                n \in {BN254Groth16G1Size, BN254Groth16G2Size,
                       BN254Groth16G1Size + BN254Groth16G2Size,
                       BN254Groth16ProofSize,
                       BN254Groth16VerifyVerifyingKeySize + BN254Groth16G1Size,
                       BN254Groth16VerifyVerifyingKeySize + 2 * BN254Groth16G1Size},
                p \in {e * BN254Groth16FieldSize - 1 : e \in 1..18}}

\* The offsets a point is parsed at.
CodecOffsets ==
    {-1, 0, 1, BN254Groth16G1Size, BN254Groth16G1Size + BN254Groth16G2Size,
     MaxCodecLen + 1}

\* Witness bytes: n elements, one of them with its highest byte set to
\* 0x30 (below the modulus r), 0x31 or 0xff (not below it).
WitnessData ==
    {SetByte(Zeroes(n * BN254Groth16FieldSize), i * BN254Groth16FieldSize, v) :
        n \in 1..MaxKeyInputs, i \in 0..(MaxKeyInputs - 1), v \in {48, 49, 255}}

\* The slices of TestSafeSlice: a few bytes, all zero or one of them set.
SliceData ==
    {Zeroes(n) : n \in 0..MaxSliceLen}
        \cup {Flip(Zeroes(n), p) : n \in 1..MaxSliceLen, p \in 0..(MaxSliceLen - 1)}

Invocation(op, bytes, at, n) == [op |-> op, bytes |-> bytes, at |-> at, n |-> n]

Invocations ==
    {Invocation(op, d, at, 0) :
        op \in {"ParseG1", "ParseG2"}, d \in CodecData, at \in CodecOffsets}
        \cup {Invocation("ParseProof", d, 0, 0) : d \in CodecData}
        \cup {Invocation("ParseVerifyingKey", d, 0, n) :
                d \in CodecData, n \in (-2)..MaxKeyInputs}
        \cup {Invocation("ParsePublicWitness", d, 0, n) :
                d \in CodecData \cup WitnessData, n \in (-2)..MaxKeyInputs}
        \cup {Invocation("SafeSlice", d, start, end) :
                d \in SliceData,
                start \in (-2)..(MaxSliceLen + 2), end \in (-2)..(MaxSliceLen + 2)}

InitParse ==
    /\ Groth16Idle
    /\ CodecIdle
    /\ HostIdle
    /\ WitnessIdle
    /\ invoked \in Invocations
    /\ replied = NoReply

\* The caller takes what the function returned.
Reply(r) ==
    /\ replied = NoReply
    /\ replied' = r
    /\ UNCHANGED <<invoked, vars, codecVars, hostVars, witnessVars>>

\* (offset, error) and the destination of ParseG1 or ParseG2
PointReply(r) ==
    [kind |-> IF r.err = NoError THEN "ok" ELSE "err",
     offset |-> r.offset, err |-> r.err, point |-> r.point]

InvokeParseG1 ==
    /\ invoked.op = "ParseG1"
    /\ Reply(PointReply(ParseG1(invoked.bytes, invoked.at)))

InvokeParseG2 ==
    /\ invoked.op = "ParseG2"
    /\ Reply(PointReply(ParseG2(invoked.bytes, invoked.at)))

InvokeParseProof ==
    /\ invoked.op = "ParseProof"
    /\ Reply(ParseProof(invoked.bytes))

InvokeParseVerifyingKey ==
    /\ invoked.op = "ParseVerifyingKey"
    /\ Reply(ParseVerifyingKey(invoked.bytes, invoked.n))

InvokeParsePublicWitness ==
    /\ invoked.op = "ParsePublicWitness"
    /\ Reply(ParsePublicWitness(invoked.bytes, invoked.n))

\* SafeSlice(data, start, end), with start in `at` and end in `n`
InvokeSafeSlice ==
    /\ invoked.op = "SafeSlice"
    /\ \E r \in {SafeSlice(invoked.bytes, invoked.at, invoked.n)} :
        Reply([kind |-> IF r.ok THEN "ok" ELSE "err", slice |-> r.slice, ok |-> r.ok])

NextParse ==
    \/ InvokeSafeSlice
    \/ InvokeParsePublicWitness
    \/ InvokeParseG1
    \/ InvokeParseG2
    \/ InvokeParseProof
    \/ InvokeParseVerifyingKey

SpecParse == InitParse /\ [][NextParse]_<<vars, otherVars>>

\* The 32 bytes of data from offset from on, as a big-endian integer.
ElementAt(bytes, from) ==
    IF bytes.pos >= from /\ bytes.pos < from + 32
        THEN [m |-> bytes.val, e |-> 8 * (from + 31 - bytes.pos)]
        ELSE [m |-> 0, e |-> 0]

G1At(bytes, from) == [X |-> ElementAt(bytes, from), Y |-> ElementAt(bytes, from + 32)]

\* The four elements from offset from on, in the order X.A1, X.A0, Y.A1, Y.A0.
G2At(bytes, from) ==
    [X |-> [A1 |-> ElementAt(bytes, from), A0 |-> ElementAt(bytes, from + 32)],
     Y |-> [A1 |-> ElementAt(bytes, from + 64), A0 |-> ElementAt(bytes, from + 96)]]

\* C21: ParseProof parses G1 (Ar) at offset 0, G2 (Bs) at offset 64 and G1
\* (Krs) at offset 192 and returns the first failure: InvalidG1 for
\* len(data) < 64, InvalidG2 for 64 <= len(data) < 192, InvalidG1 for
\* 192 <= len(data) < 256, success for len(data) >= 256; the proof is nil
\* on every failure.
C21_ParseProof ==
    (invoked.op = "ParseProof" /\ replied # NoReply) =>
        \E length \in {invoked.bytes.len} :
            /\ length < 64 => replied = ParseErr(ErrorInvalidG1)
            /\ (64 <= length /\ length < 192) => replied = ParseErr(ErrorInvalidG2)
            /\ (192 <= length /\ length < 256) => replied = ParseErr(ErrorInvalidG1)
            /\ length >= 256 =>
                replied = ParseOk([Ar |-> G1At(invoked.bytes, 0),
                                   Bs |-> G2At(invoked.bytes, 64),
                                   Krs |-> G1At(invoked.bytes, 192)])
            /\ replied.kind # "ok" => replied.value = NilValue

\* On 255 bytes Ar and Bs were parsed, Krs was not: InvalidG1 and a nil proof.
C21_Witness ==
    /\ invoked.op = "ParseProof"
    /\ invoked.bytes.len = 255
    /\ replied = ParseErr(ErrorInvalidG1)

\* C22: ParseG2(data, offset) reads four consecutive 32-byte big-endian
\* elements in the order X.A1, X.A0, Y.A1, Y.A0 and returns offset + 128 on
\* success; it returns InvalidG2 and the offset it was given whenever fewer
\* than 128 bytes remain from offset or offset is negative.
C22_ParseG2 ==
    (invoked.op = "ParseG2" /\ replied # NoReply) =>
        \E short \in {invoked.at < 0 \/ invoked.bytes.len - invoked.at < 128} :
            /\ short =>
                /\ replied.kind = "err"
                /\ replied.err = ErrorInvalidG2
                /\ replied.offset = invoked.at
            /\ ~short =>
                /\ replied.kind = "ok"
                /\ replied.err = NoError
                /\ replied.offset = invoked.at + 128
                /\ replied.point = G2At(invoked.bytes, invoked.at)

\* The third element of 128 bytes holds 1: it was read into Y.A1.
C22_Witness ==
    /\ invoked.op = "ParseG2"
    /\ invoked.bytes = Flip(Zeroes(128), 95)
    /\ invoked.at = 0
    /\ replied.kind = "ok"
    /\ replied.offset = 128
    /\ replied.point.Y.A1 = [m |-> 1, e |-> 0]
    /\ replied.point.Y.A0 = ZeroElement

\* C23 (as claimed): every verifying key ParseVerifyingKey(data, n) returns
\* has exactly n + 1 IC points and at least one; it succeeds only when
\* len(data) >= 448 + 64 (n + 1), fails with InvalidG2 when Beta, Gamma or
\* Delta is truncated and with InvalidG1 when an IC point is missing.
C23_KeyHasICPoints ==
    (invoked.op = "ParseVerifyingKey" /\ replied # NoReply) =>
        \E length \in {invoked.bytes.len} :
            /\ replied.kind = "ok" =>
                /\ Len(replied.value.K) = invoked.n + 1
                /\ Len(replied.value.K) >= 1
                /\ length >= 448 + 64 * (invoked.n + 1)
            /\ (64 <= length /\ length < 448) => replied = ParseErr(ErrorInvalidG2)
            /\ (/\ invoked.n >= 0
                /\ length >= 448
                /\ length < 448 + 64 * (invoked.n + 1))
                    => replied = ParseErr(ErrorInvalidG1)

\* The 32-byte word of data from offset from on, as its integer.
WordAt(bytes, from) ==
    LET v == ElementAt(bytes, from) IN [m |-> v.m, e |-> v.e, wraps |-> 0]

\* C24 (as claimed): ParsePublicWitness(data, n) reads n 32-byte big-endian
\* elements from offsets 0, 32, ..., 32 (n - 1): for n >= 0 it succeeds if
\* and only if len(data) >= 32 n, returns an error and a nil witness
\* otherwise, yields an empty witness for n = 0, and for len(data) = 32 n
\* the 32-byte words of the re-serialized witness are the words of data.
C24_WitnessRoundTrip ==
    (invoked.op = "ParsePublicWitness" /\ replied # NoReply /\ invoked.n >= 0) =>
        /\ (replied.kind = "ok") <=> (invoked.bytes.len >= 32 * invoked.n)
        /\ (replied.kind # "ok") =>
            (replied.kind = "err" /\ replied.value = NilValue)
        /\ (replied.kind = "ok") => (Len(replied.value) = invoked.n)
        /\ (replied.kind = "ok" /\ invoked.bytes.len = 32 * invoked.n) =>
            \A i \in 1..invoked.n :
                replied.value[i] = WordAt(invoked.bytes, 32 * (i - 1))

\* Whether the integer of a 32-byte word is below the modulus r of the scalar
\* field, whose highest byte is 0x30.
BelowModulus(w) == w.e < 8 * (BN254Groth16FieldSize - 1) \/ w.m <= 48

\* C24 (amended): ParsePublicWitness(data, n) reads n 32-byte big-endian
\* elements from offsets 0, 32, ..., 32 (n - 1), in order: it succeeds if and
\* only if len(data) >= 32 n, returns an error and a nil witness otherwise,
\* yields an empty witness for n = 0, and each element is the word at its
\* offset reduced modulo r: a word below r is stored as it is, so that the
\* witness re-serializes to data when len(data) = 32 n, and a word not below
\* r is stored reduced.
C24_WitnessReadsElements ==
    (invoked.op = "ParsePublicWitness" /\ replied # NoReply /\ invoked.n >= 0) =>
        /\ (replied.kind = "ok") <=> (invoked.bytes.len >= 32 * invoked.n)
        /\ (replied.kind # "ok") =>
            (replied.kind = "err" /\ replied.value = NilValue)
        /\ (replied.kind = "ok") =>
            /\ Len(replied.value) = invoked.n
            /\ \A i \in 1..invoked.n :
                LET w == WordAt(invoked.bytes, 32 * (i - 1))
                IN  /\ replied.value[i].m = w.m
                    /\ replied.value[i].e = w.e
                    /\ BelowModulus(w) <=> (replied.value[i] = w)
                    /\ BelowModulus(w) <=> (replied.value[i].wraps = 0)

\* Two elements are read, the second one the largest word below r that the
\* inputs hold, and a call on too few bytes has failed.
C24_Witness ==
    /\ invoked.op = "ParsePublicWitness"
    /\ invoked.n = 2
    /\ invoked.bytes = SetByte(Zeroes(64), 32, 48)
    /\ replied.kind = "ok"
    /\ replied.value[2] = [m |-> 48, e |-> 248, wraps |-> 0]

\* C25 (as claimed): ParseG1, ParseG2, ParseProof, ParseVerifyingKey and
\* ParsePublicWitness never abort: for every byte slice, offset and
\* numberOfPublicInputs, negative ones included, the call returns a parsed
\* value or an explicit error, never a runtime fault.
C25_CodecNeverAborts ==
    (invoked.op \in {"ParseG1", "ParseG2", "ParseProof", "ParseVerifyingKey",
                     "ParsePublicWitness"} /\ replied # NoReply) =>
        replied.kind \in {"ok", "err"}

(***************************************************************************)
(* ParsePublicWitness statement by statement: the channel it makes, the    *)
(* sends of its loop, the close, and the receives of publicWitness.Fill.   *)
(* The function runs on one goroutine, so a send on a full channel or a    *)
(* receive on an empty open channel would block it for ever; in the model  *)
(* such a step is not enabled.                                             *)
(***************************************************************************)
WitnessCalls ==
    {[data |-> d, numberOfPublicInputs |-> n] :
        d \in {Zeroes(l) : l \in 0..(BN254Groth16FieldSize * (MaxKeyInputs + 1))}
                \cup WitnessData,
        n \in (-1)..MaxKeyInputs}

InitWitness ==
    /\ Groth16Idle /\ CodecIdle /\ HostIdle /\ ParseIdle
    /\ witnessArgs \in WitnessCalls
    /\ stage = "make"
    /\ channel = NilChannel
    /\ witnessOffset = 0
    /\ publicWitness = <<>>
    /\ witnessResult = NoReply

\* A channel that holds no buffered value.
MakeChanUnbuffered(capacity) ==
    [made |-> TRUE, capacity |-> 0, closed |-> FALSE, queue |-> <<>>]

\* make(chan any, capacity)
MakeChan(capacity) ==
    [made |-> TRUE, capacity |-> capacity, closed |-> FALSE, queue |-> <<>>]

\* The iterations `for range numberOfPublicInputs` has completed.
Iterations == witnessOffset \div BN254Groth16FieldSize

ReturnWitness(r) == stage' = "done" /\ witnessResult' = r

\* channel := make(chan any, numberOfPublicInputs); offset := 0
MakeChannel ==
    /\ stage = "make"
    /\ IF witnessArgs.numberOfPublicInputs < 0
        THEN ReturnWitness(ParsePanic) /\ UNCHANGED <<channel, witnessOffset>>
        ELSE /\ channel' = MakeChan(witnessArgs.numberOfPublicInputs)
             /\ witnessOffset' = 0
             /\ stage' = "loop"
             /\ UNCHANGED witnessResult
    /\ UNCHANGED <<witnessArgs, publicWitness, vars, codecVars, hostVars, parseVars>>

\* One iteration whose SafeSlice succeeds: channel <- new(big.Int).SetBytes(slice),
\* which needs room in the buffer, and offset += BN254Groth16FieldSize.
SendElement ==
    /\ stage = "loop"
    /\ Iterations < witnessArgs.numberOfPublicInputs
    /\ \E read \in {SafeSlice(witnessArgs.data, witnessOffset,
                              witnessOffset + BN254Groth16FieldSize)} :
        /\ read.ok
        /\ Len(channel.queue) < channel.capacity
        /\ channel' = [channel EXCEPT !.queue = Append(@, SetBytes(read.slice))]
    /\ witnessOffset' = witnessOffset + BN254Groth16FieldSize
    /\ UNCHANGED <<witnessArgs, stage, publicWitness, witnessResult,
                   vars, codecVars, hostVars, parseVars>>

\* One iteration whose SafeSlice fails: return nil, errors.New("invalid slice")
FailRead ==
    /\ stage = "loop"
    /\ Iterations < witnessArgs.numberOfPublicInputs
    /\ ~SafeSlice(witnessArgs.data, witnessOffset,
                  witnessOffset + BN254Groth16FieldSize).ok
    /\ ReturnWitness(ParseErr(ErrorInvalidSlice))
    /\ UNCHANGED <<witnessArgs, channel, witnessOffset, publicWitness,
                   vars, codecVars, hostVars, parseVars>>

\* close(channel), after the loop
CloseChannel ==
    /\ stage = "loop"
    /\ Iterations = witnessArgs.numberOfPublicInputs
    /\ channel' = [channel EXCEPT !.closed = TRUE]
    /\ stage' = "fill"
    /\ UNCHANGED <<witnessArgs, witnessOffset, publicWitness, witnessResult,
                   vars, codecVars, hostVars, parseVars>>

\* publicWitness.Fill(numberOfPublicInputs, 0, channel) receives one value;
\* it faults on a value beyond the numberOfPublicInputs it expects.
FillReceive ==
    /\ stage = "fill"
    /\ channel.queue # <<>>
    /\ channel' = [channel EXCEPT !.queue = Tail(@)]
    /\ IF Len(publicWitness) >= witnessArgs.numberOfPublicInputs
        THEN ReturnWitness(ParsePanic) /\ UNCHANGED publicWitness
        ELSE /\ publicWitness' = Append(publicWitness, SetBigInt(Head(channel.queue)))
             /\ UNCHANGED <<stage, witnessResult>>
    /\ UNCHANGED <<witnessArgs, witnessOffset, vars, codecVars, hostVars, parseVars>>

\* Fill's range over the channel ends when the channel is closed and empty;
\* Fill fails unless it received numberOfPublicInputs values.
FillDone ==
    /\ stage = "fill"
    /\ channel.queue = <<>>
    /\ channel.closed
    /\ ReturnWitness(IF Len(publicWitness) = witnessArgs.numberOfPublicInputs
                THEN ParseOk(publicWitness)
                ELSE ParseErr("invalid witness"))
    /\ UNCHANGED <<witnessArgs, channel, witnessOffset, publicWitness,
                   vars, codecVars, hostVars, parseVars>>

NextWitness ==
    \/ MakeChannel
    \/ SendElement
    \/ FailRead
    \/ CloseChannel
    \/ FillReceive
    \/ FillDone

\* The function runs on its goroutine until it returns: it takes its next
\* step whenever that step is enabled.
SpecWitness ==
    InitWitness /\ [][NextWitness]_<<vars, otherVars>>
        /\ WF_<<vars, otherVars>>(NextWitness)

\* The channel holds what the claim says at every step of a call.
ChannelInOrder ==
    /\ channel.made =>
        /\ channel.capacity = witnessArgs.numberOfPublicInputs
        /\ Len(channel.queue) + Len(publicWitness) <= witnessArgs.numberOfPublicInputs
    /\ stage = "loop" =>
        /\ ~channel.closed
        /\ Len(channel.queue) = Iterations
        /\ Iterations < witnessArgs.numberOfPublicInputs =>
            Len(channel.queue) < channel.capacity
    /\ stage = "fill" =>
        /\ channel.closed
        /\ Len(channel.queue) + Len(publicWitness) = witnessArgs.numberOfPublicInputs
    /\ stage = "done" =>
        witnessResult = ParsePublicWitness(witnessArgs.data,
                                           witnessArgs.numberOfPublicInputs)
    /\ (stage = "done" /\ witnessArgs.numberOfPublicInputs >= 0) =>
        /\ witnessResult.kind \in {"ok", "err"}
        /\ witnessResult.kind = "ok" =>
            /\ channel.closed /\ channel.queue = <<>>
            /\ Len(witnessResult.value) = witnessArgs.numberOfPublicInputs
        /\ witnessResult.kind = "err" =>
            /\ ~channel.closed
            /\ witnessResult.err = ErrorInvalidSlice
            /\ Len(channel.queue) < witnessArgs.numberOfPublicInputs

\* C26: ParsePublicWitness never blocks on its channel and always returns
\* for n >= 0: the capacity is n, at most n values are sent before the first
\* failed read or the close, a send always finds room, the channel is closed
\* before Fill gets it, and Fill then receives exactly n values.
C26_NeverBlocks ==
    /\ []ChannelInOrder
    /\ [](witnessArgs.numberOfPublicInputs >= 0 => <>(stage = "done"))

\* A call for three elements has returned them after three sends, the close
\* and three receives.
C26_Witness ==
    /\ witnessArgs.numberOfPublicInputs = MaxKeyInputs
    /\ MaxKeyInputs > 1
    /\ stage = "done"
    /\ witnessResult.kind = "ok"
    /\ Len(publicWitness) = MaxKeyInputs
    /\ witnessOffset = BN254Groth16FieldSize * MaxKeyInputs
    /\ channel.closed

\* The quotient of length - 768 by 96 truncated toward zero, stated by the
\* multiples of 96 that enclose length - 768.
TruncatedCount(length) ==
    CHOOSE q \in (-8)..((MaxInputLen \div 96) + 1) :
        IF length >= 768
            THEN 96 * q <= length - 768 /\ length - 768 < 96 * (q + 1)
            ELSE 96 * (q - 1) < length - 768 /\ length - 768 <= 96 * q

\* C27: for BN254 and every input length L, RequiredGas is the signed value
\* 220000 + 26700 q with q = (L - 768) / 96 truncated toward zero, also for
\* a negative q (L <= 672, q down to -8): no wrapped-around huge value, 6400
\* for the empty input, 220000 for 673 <= L <= 863, and never less than for
\* the input one byte shorter.
C27_GasForEveryLength ==
    (curveID = "BN254" /\ metered[1]) =>
        LET L == input[1].len
            q == TruncatedCount(L)
        IN  /\ gas[1] = Uint64(220000 + 26700 * q)
            /\ 220000 + 26700 * q >= 6400
            /\ \A k \in 4..7 : gas[1][k] = 0
            /\ L <= 672 => q \in (-8)..(-1)
            /\ L = 0 => gas[1] = Uint64(6400)
            /\ L \in 673..863 => gas[1] = Uint64(220000)
            /\ L > 0 => U64Leq(RequiredGas(curveID, Zeroes(L - 1)), gas[1])

\* The empty input, whose count is -8, has been metered at 6400 gas.
C27_Witness ==
    /\ curveID = "BN254"
    /\ metered[1]
    /\ input[1].len = 0
    /\ calculateNumberOfPublicInputs(input[1], Groth16Params[curveID]) = -8
    /\ gas[1] = Uint64(6400)

\* The first k bytes of data, k <= len(data).
FirstBytes(data, k) ==
    [len |-> k, pos |-> IF data.pos < k THEN data.pos ELSE -1,
     val |-> IF data.pos < k THEN data.val ELSE 0]

\* C28: Run's result depends on the first 768 + 96 n bytes of an accepted
\* input only: two inputs of one count n that agree on those bytes and
\* differ in their length or in the bytes beyond produce the same output and
\* the same error, and the parsers are handed the same bytes.
C28_TrailingBytesUnread ==
    \A i, j \in DOMAIN input :
        (/\ ran[i] /\ ran[j]
         /\ AcceptedLength(input[i].len)
         /\ AcceptedLength(input[j].len)
         /\ ImpliedCount(input[i].len) = ImpliedCount(input[j].len)
         /\ FirstBytes(input[i], 768 + 96 * ImpliedCount(input[i].len))
                = FirstBytes(input[j], 768 + 96 * ImpliedCount(input[j].len)))
            => /\ ret[i] = ret[j]
               /\ err[i] = err[j]
               /\ calls[i] = calls[j]
               /\ \A c \in 1..Len(calls[i]) :
                    calls[i][c].data.len <= 768 + 96 * count[i]

\* The layout of two public inputs, and the same bytes followed by 95 bytes
\* the last of which is set, have both been verified with the same result.
C28_Witness ==
    /\ input[1] = Zeroes(ExactLength(2))
    /\ input[2] = Flip(Zeroes(ExactLength(2) + 95), ExactLength(2) + 94)
    /\ ran[1] /\ ran[2]
    /\ count[1] = 2 /\ count[2] = 2
    /\ ret[1] = <<1>> /\ ret[2] = <<1>>
    /\ err[1] = NoError /\ err[2] = NoError

\* The input size each fixed-length BabyJubJub precompile requires.
FixedInputSize ==
    [name \in {"BabyJubJubCurveAdd", "BabyJubJubMul",
               "BabyJubJubCurveValidatePoint", "BabyJubJubEdDSAVerify"} |->
        CASE name = "BabyJubJubCurveAdd" -> BabyJubJubCurveAddInputSize
          [] name = "BabyJubJubMul" -> BabyJubJubCurveMulInputSize
          [] name = "BabyJubJubCurveValidatePoint" ->
                BabyJubJubCurveValidatePointInputSize
          [] name = "BabyJubJubEdDSAVerify" -> BabyJubJubCurveEdDSAVerifyInputSize]

\* C29: in the fixed-length BabyJubJub precompiles (add, mul, point
\* validation, EdDSA verify) no Run faults: an input of another length is
\* refused before any read, and on an input of the exact length every
\* 32-byte element Run reads lies inside the input, so no read gives nil.
C29_NoNilDereference ==
    (precompile \in DOMAIN FixedInputSize /\ returned) =>
        /\ ~crashed
        /\ calldata.len # FixedInputSize[precompile] =>
            (failure # NoError /\ output = NilOutput /\ examined = <<>>)
        /\ calldata.len = FixedInputSize[precompile] =>
            /\ \A w \in 0..((FixedInputSize[precompile] \div 32) - 1) :
                /\ ReadField(calldata, 32 * w, 32).value # NilBig
                /\ ReadField(calldata, 32 * w, 32).offset = 32 * (w + 1)
            /\ failure = NoError => output # NilOutput

\* A multiplication of the identity by SubOrder has returned the identity.
C29_Witness ==
    /\ precompile = "BabyJubJubMul"
    /\ returned
    /\ calldata = Words(96, <<BigZero, BigOne, SubOrder>>)
    /\ ~crashed
    /\ failure = NoError
    /\ output = MarshalPoint(Point(BigZero, BigOne))
    /\ Len(examined) = 3

\* C30: SafeSlice(data, start, end) returns (data[start:end], true), of
\* length end - start, if and only if 0 <= start <= end <= len(data), and
\* (nil, false) for every other start and end: a negative start or end,
\* start > end, end > len(data).
C30_SafeSlice ==
    (invoked.op = "SafeSlice" /\ replied # NoReply) =>
        LET start == invoked.at
            end == invoked.n
            inRange == 0 <= start /\ start <= end /\ end <= invoked.bytes.len
        IN  /\ replied.ok <=> inRange
            /\ (start < 0 \/ end < 0 \/ start > end \/ end > invoked.bytes.len)
                    => ~replied.ok
            /\ replied.ok =>
                /\ replied.slice.len = end - start
                /\ \A i \in 0..(end - start - 1) :
                    ByteAt(replied.slice, i) = ByteAt(invoked.bytes, start + i)
                /\ replied.slice.pos \in (-1)..(end - start - 1)
            /\ ~replied.ok => replied.slice = Zeroes(0)

\* data[1:3] of three bytes whose last one is set is the two bytes {0, 1}.
C30_Witness ==
    /\ invoked.op = "SafeSlice"
    /\ invoked.bytes = Flip(Zeroes(3), 2)
    /\ invoked.at = 1
    /\ invoked.n = 3
    /\ replied # NoReply
    /\ replied.ok
    /\ replied.slice = Flip(Zeroes(2), 1)

====
